---- MODULE Spec2Model ----
(***************************************************************************)
(* tableGen: PMAC flux-linkage lookup tables by inverse distance weighting *)
(* (src/src/table_generator.py) and the dq-frame derivation that feeds it  *)
(* (src/src/data_processor.py, src/src/motor_parameters.py).               *)
(*                                                                         *)
(* Numbers.  The program computes in IEEE doubles; the model computes in   *)
(* exact arithmetic where the code's result is rational, and says where it *)
(* does not:                                                               *)
(*   - a rational is a reduced pair <<n, d>> with d > 0;                   *)
(*   - a length (np.sqrt of a rational, max_dist) is a "root" [s, q]: the  *)
(*     real s * sqrt(q) with s in {-1, 0, 1}; roots are compared exactly   *)
(*     through their signed squares;                                       *)
(*   - the reciprocal of a length (the IDW weight) is irrational, so it is *)
(*     carried in fixed point at the resolution of the code's own epsilon  *)
(*     0.001: the length is rounded down to a multiple of 0.001 and the    *)
(*     weight to a multiple of 0.001.  One-ulp rounding of the doubles is  *)
(*     below what the model sees.                                          *)
(***************************************************************************)
EXTENDS Integers, Sequences, FiniteSets, TLC

VARIABLES
    pc,            \* position of the operation under analysis
    data,          \* the sample arrays: a sequence of [id, iq, psi_d, psi_q]
    idw_in,        \* arguments of the last interpolate_idw call
    idw_out,       \* its return value
    idw_log,       \* the calls of a sequence of interpolate_idw calls, in order
    table_params,  \* generate_pmac_tables: the table_params argument
    id_grid,       \* generate_pmac_tables: the Id axis
    iq_grid,       \* generate_pmac_tables: the Iq axis
    gen_max_dist,  \* generate_pmac_tables: the interpolation radius max_dist
    x,             \* generate_pmac_tables: outer loop index (Id)
    y,             \* generate_pmac_tables: inner loop index (Iq)
    psi_d_table,   \* generate_pmac_tables: the psi_d output table
    psi_q_table,   \* generate_pmac_tables: the psi_q output table
    writes,        \* number of assignments made to each table cell
    idw_calls,     \* number of interpolate_idw calls made by the loop
    evals,         \* node evaluations begun when the nodes are evaluated in any order
    columns_read,  \* whether the sample columns have been extracted
    progress,      \* the progress percentages printed so far
    ret,           \* what generate_pmac_tables returned or raised
    motor_config,  \* get_motor_parameters: the configuration argument
    user_input,    \* get_motor_parameters: the three answers typed at the prompts
    motor_params,  \* what get_motor_parameters returned or raised
    raw_data,      \* process_data: the raw_data argument, a sequence of rows
    zero_division, \* process_data: what a float division by zero does in this run
    proc_arg,      \* process_data: the motor_params argument
    processed_data,\* process_data: the working copy, column by column
    proc_ret,      \* what process_data returned or raised
    calc_in,       \* the library function called directly and its arguments
    calc_out,      \* its return value
    csv_file,      \* what is found at the CSV path
    config,        \* main: the loaded configuration
    load_ret,      \* what load_test_data returned or raised
    started,       \* main: the steps started so far, in order
    outcomes,      \* main: how each started step ended
    printed,       \* main: the messages main has written to stdout
    exit_status    \* the exit status of the process, once it has exited

idwVars == <<idw_in, idw_out, idw_log>>

genVars ==
    <<table_params, id_grid, iq_grid, gen_max_dist, x, y, psi_d_table, psi_q_table,
      writes, idw_calls, evals, columns_read, progress, ret>>

deriveVars ==
    <<motor_config, user_input, motor_params, raw_data, zero_division, proc_arg,
      processed_data, proc_ret>>

calcVars == <<calc_in, calc_out>>

mainVars == <<csv_file, config, load_ret, started, outcomes, printed, exit_status>>

vars == <<pc, data, idwVars, genVars, deriveVars, calcVars, mainVars>>

None == "None"

\* the value of a record-valued variable that holds nothing yet
NoRec == [none |-> TRUE]

(***************************************************************************)
(* Bounds of the model.                                                    *)
(***************************************************************************)
MaxSamples == 3
MaxSize == 3
MaxRows == 2
MaxCalls == 3
MaxParSize == 2

(***************************************************************************)
(* Rational arithmetic.                                                    *)
(***************************************************************************)
Abs(n) == IF n < 0 THEN -n ELSE n

RECURSIVE Gcd(_, _)
Gcd(a, b) == IF b = 0 THEN a ELSE Gcd(b, a % b)

Norm(n, d) ==
    LET g == Gcd(Abs(n), Abs(d))
        s == IF d < 0 THEN -1 ELSE 1
    IN  <<(s * n) \div g, (s * d) \div g>>

RInt(n) == <<n, 1>>
RAdd(a, b) == Norm(a[1] * b[2] + b[1] * a[2], a[2] * b[2])
RSub(a, b) == Norm(a[1] * b[2] - b[1] * a[2], a[2] * b[2])
RMul(a, b) == Norm(a[1] * b[1], a[2] * b[2])
RNeg(a) == <<-a[1], a[2]>>
RLt(a, b) == a[1] * b[2] < b[1] * a[2]
RSign(a) == IF a[1] > 0 THEN 1 ELSE IF a[1] < 0 THEN -1 ELSE 0

\* the doubles that are not finite, as rationals of denominator 0
Inf == <<1, 0>>
NaN == <<0, 0>>
IsFinite(a) == a[2] # 0
IsNaN(a) == a = NaN

(***************************************************************************)
(* Roots: the real s * sqrt(q).                                            *)
(***************************************************************************)
Sqrt(q) == [s |-> RSign(q), q |-> q]
FromRat(r) == [s |-> RSign(r), q |-> RMul(r, r)]
SignedSq(a) == RMul(RInt(a.s), a.q)
RootLt(a, b) == RLt(SignedSq(a), SignedSq(b))
RootHalf(a) == [s |-> a.s, q |-> RMul(a.q, <<1, 4>>)]

(***************************************************************************)
(* Fixed point at the resolution of the epsilon of interpolate_idw.        *)
(***************************************************************************)
EpsInv == 1000                      \* 0.001 = 1 / EpsInv
EpsRoot == FromRat(<<1, EpsInv>>)

RECURSIVE ISqrtBetween(_, _, _)
ISqrtBetween(n, lo, hi) ==          \* lo*lo <= n < hi*hi
    IF hi - lo <= 1 THEN lo
    ELSE LET mid == (lo + hi) \div 2
         IN  IF mid * mid <= n THEN ISqrtBetween(n, mid, hi)
                               ELSE ISqrtBetween(n, lo, mid)

ISqrt(n) == ISqrtBetween(n, 0, 46341)

\* a non-negative root in units of 0.001, rounded down
Milli(a) == ISqrt((a.q[1] * EpsInv * EpsInv) \div a.q[2])

\* 1.0 / a in units of 0.001, rounded down
Recip(a) == (EpsInv * EpsInv) \div Milli(a)

(***************************************************************************)
(* interpolate_idw (table_generator.py:11-64).  The four data arrays are   *)
(* sequences of integers of equal length; the target is a pair of          *)
(* rationals; max_dist is a root.  The result is a pair of rationals.      *)
(***************************************************************************)
Idx(s) == 1..Len(s)

\* line 38: np.sqrt((id_data - id_target) ** 2 + (iq_data - iq_target) ** 2)
Distances(id_data, iq_data, id_target, iq_target) ==
    [i \in Idx(id_data) |->
        LET dx == RSub(RInt(id_data[i]), id_target)
            dy == RSub(RInt(iq_data[i]), iq_target)
        IN  Sqrt(RAdd(RMul(dx, dx), RMul(dy, dy)))]

\* faulty variant: the threshold taken inclusively
MutWithinThreshold(distances, max_dist) ==
    [i \in Idx(distances) |-> ~RootLt(max_dist, distances[i])]

\* line 41: distances < max_dist
WithinThreshold(distances, max_dist) ==
    [i \in Idx(distances) |-> RootLt(distances[i], max_dist)]

\* faulty variant: the last of several minima is taken
MutArgMin(distances) ==
    CHOOSE i \in Idx(distances) :
        /\ \A j \in Idx(distances) : ~RootLt(distances[j], distances[i])
        /\ \A j \in (i + 1)..Len(distances) : RootLt(distances[i], distances[j])

\* line 45: np.argmin returns the first index of the minimum
ArgMin(distances) ==
    CHOOSE i \in Idx(distances) :
        /\ \A j \in Idx(distances) : ~RootLt(distances[j], distances[i])
        /\ \A j \in 1..(i - 1) : RootLt(distances[i], distances[j])

\* lines 49-51: boolean-mask indexing keeps the masked entries in order
RECURSIVE MaskFrom(_, _, _)
MaskFrom(arr, mask, i) ==
    IF i > Len(arr) THEN <<>>
    ELSE IF mask[i] THEN <<arr[i]>> \o MaskFrom(arr, mask, i + 1)
                    ELSE MaskFrom(arr, mask, i + 1)

Mask(arr, mask) == MaskFrom(arr, mask, 1)

\* line 55: np.where(dists_filtered < 0.001, 0.001, dists_filtered)
Clamp(dists) ==
    [i \in Idx(dists) |-> IF RootLt(dists[i], EpsRoot) THEN EpsRoot ELSE dists[i]]

\* faulty variant: weights proportional to the distance instead of its inverse
MutWeights(dists) == [i \in Idx(dists) |-> Milli(dists[i])]

\* line 57: weights = 1.0 / dists_filtered
Weights(dists) == [i \in Idx(dists) |-> Recip(dists[i])]

RECURSIVE SumFrom(_, _)
SumFrom(arr, i) == IF i > Len(arr) THEN 0 ELSE arr[i] + SumFrom(arr, i + 1)

\* np.sum
Sum(arr) == SumFrom(arr, 1)

\* elementwise product of two integer arrays
Times(a, b) == [i \in Idx(a) |-> a[i] * b[i]]

\* faulty variant: the weighted sum is not divided by the sum of the weights
MutWeightedAverage(psi_filtered, weights) ==
    Norm(Sum(Times(psi_filtered, weights)), EpsInv)

\* lines 61-62: np.sum(psi_filtered * weights) / weight_sum
\* (numpy's 0.0 / 0.0 over empty arrays is nan, with a warning and no error)
WeightedAverage(psi_filtered, weights) ==
    IF Sum(weights) = 0 THEN NaN
    ELSE Norm(Sum(Times(psi_filtered, weights)), Sum(weights))

\* faulty variant: lines 44-46 (the nearest-neighbour fallback) are missing
MutInterpolateIdw(id_data, iq_data, psi_d_data, psi_q_data, id_target, iq_target, max_dist) ==
    LET distances == Distances(id_data, iq_data, id_target, iq_target)
        within_threshold == WithinThreshold(distances, max_dist)
        dists_filtered == Clamp(Mask(distances, within_threshold))
        psi_d_filtered == Mask(psi_d_data, within_threshold)
        psi_q_filtered == Mask(psi_q_data, within_threshold)
        weights == Weights(dists_filtered)
    IN  <<WeightedAverage(psi_d_filtered, weights),
          WeightedAverage(psi_q_filtered, weights)>>

\* faulty variant: of the samples at one coordinate only the first is kept
MutDedupInterpolateIdw(id_data, iq_data, psi_d_data, psi_q_data, id_target, iq_target, max_dist) ==
    LET distances == Distances(id_data, iq_data, id_target, iq_target)
        near == WithinThreshold(distances, max_dist)
        within_threshold ==
            [i \in Idx(distances) |->
                /\ near[i]
                /\ \A j \in 1..(i - 1) : id_data[j] # id_data[i] \/ iq_data[j] # iq_data[i]]
    IN  IF ~(\E i \in Idx(distances) : within_threshold[i])
        THEN LET nearest_idx == ArgMin(distances)
             IN  <<RInt(psi_d_data[nearest_idx]), RInt(psi_q_data[nearest_idx])>>
        ELSE LET dists_filtered == Clamp(Mask(distances, within_threshold))
                 psi_d_filtered == Mask(psi_d_data, within_threshold)
                 psi_q_filtered == Mask(psi_q_data, within_threshold)
                 weights == Weights(dists_filtered)
             IN  <<WeightedAverage(psi_d_filtered, weights),
                   WeightedAverage(psi_q_filtered, weights)>>

interpolate_idw(id_data, iq_data, psi_d_data, psi_q_data, id_target, iq_target, max_dist) ==
    LET distances == Distances(id_data, iq_data, id_target, iq_target)
        within_threshold == WithinThreshold(distances, max_dist)
    IN  IF ~(\E i \in Idx(distances) : within_threshold[i])
        THEN LET nearest_idx == ArgMin(distances)
             IN  <<RInt(psi_d_data[nearest_idx]), RInt(psi_q_data[nearest_idx])>>
        ELSE LET dists_filtered == Clamp(Mask(distances, within_threshold))
                 psi_d_filtered == Mask(psi_d_data, within_threshold)
                 psi_q_filtered == Mask(psi_q_data, within_threshold)
                 weights == Weights(dists_filtered)
             IN  <<WeightedAverage(psi_d_filtered, weights),
                   WeightedAverage(psi_q_filtered, weights)>>

\* the four arrays of a sample sequence
IdData(d) == [i \in Idx(d) |-> d[i].id]
IqData(d) == [i \in Idx(d) |-> d[i].iq]
PsiDData(d) == [i \in Idx(d) |-> d[i].psi_d]
PsiQData(d) == [i \in Idx(d) |-> d[i].psi_q]

Idw(d, id_target, iq_target, max_dist) ==
    interpolate_idw(IdData(d), IqData(d), PsiDData(d), PsiQData(d),
                    id_target, iq_target, max_dist)

(***************************************************************************)
(* Inputs.  Samples are drawn from a pool that holds the data set of       *)
(* tests/test_calculations.py (the diagonal (0,0), (1,1), (2,2)), a second *)
(* sample at (1,1) with other values, and samples of negative Id.          *)
(***************************************************************************)
Sample(i, q, pd, pq) == [id |-> i, iq |-> q, psi_d |-> pd, psi_q |-> pq]

SamplePool ==
    { Sample(0, 0, 10, 100), Sample(1, 1, 20, 200), Sample(2, 2, 30, 300),
      Sample(1, 1, 30, 100), Sample(-1, 1, 40, 200), Sample(-2, 0, 10, 300) }

RECURSIVE SeqsUpTo(_, _)
SeqsUpTo(S, n) ==
    IF n = 0 THEN {<<>>}
    ELSE LET shorter == SeqsUpTo(S, n - 1)
         IN  shorter \cup {Append(s, e) : s \in {t \in shorter : Len(t) = n - 1}, e \in S}

DataSets == SeqsUpTo(SamplePool, MaxSamples) \ {<<>>}

QueryVals == {<<-1, 1>>, <<0, 1>>, <<1, 2>>, <<1, 1>>, <<5, 1>>}

MaxDistVals ==
    { FromRat(<<-1, 1>>), FromRat(<<0, 1>>), FromRat(<<1, 1>>),
      Sqrt(<<2, 1>>), FromRat(<<3, 1>>) }

\* the state of generate_pmac_tables while it is not running
GenIdle ==
    /\ table_params = NoRec /\ id_grid = <<>> /\ iq_grid = <<>>
    /\ gen_max_dist = NoRec /\ x = None /\ y = None
    /\ psi_d_table = <<>> /\ psi_q_table = <<>> /\ writes = <<>>
    /\ idw_calls = 0 /\ evals = {} /\ columns_read = FALSE /\ progress = <<>> /\ ret = NoRec

\* the state of get_motor_parameters and process_data while they are not running
DeriveIdle ==
    /\ motor_config = NoRec /\ user_input = NoRec /\ motor_params = NoRec
    /\ raw_data = <<>> /\ zero_division = None /\ proc_arg = NoRec
    /\ processed_data = <<>> /\ proc_ret = NoRec

\* the state of the directly called library functions while none is called
CalcIdle == calc_in = NoRec /\ calc_out = None

MainIdle ==
    /\ csv_file = NoRec /\ config = NoRec /\ load_ret = NoRec
    /\ started = <<>> /\ outcomes = <<>> /\ printed = <<>> /\ exit_status = <<>>

(***************************************************************************)
(* SpecIdw: direct calls of interpolate_idw on a data set.                 *)
(***************************************************************************)
InitIdw ==
    /\ pc = "idle"
    /\ data \in DataSets
    /\ idw_in = None
    /\ idw_out = None
    /\ idw_log = <<>>
    /\ GenIdle
    /\ DeriveIdle
    /\ CalcIdle
    /\ MainIdle

CallIdw ==
    /\ pc = "idle"
    /\ \E a \in QueryVals, b \in QueryVals, m \in MaxDistVals :
          /\ idw_in' = [id_target |-> a, iq_target |-> b, max_dist |-> m]
          /\ idw_out' = Idw(data, a, b, m)
    /\ pc' = "called"
    /\ UNCHANGED <<data, idw_log, genVars, deriveVars, calcVars, mainVars>>

NextIdw == CallIdw

SpecIdw == InitIdw /\ [][NextIdw]_vars

(***************************************************************************)
(* SpecIdwSeq: a caller makes up to MaxCalls interpolate_idw calls in a    *)
(* row, passing the same four arrays each time (as the loops of            *)
(* generate_pmac_tables do).  The arrays are passed by reference: what     *)
(* they hold after a call is what the next call receives.                  *)
(***************************************************************************)

\* faulty variant: the values of the samples outside max_dist are zeroed in
\* place in the caller's arrays instead of being masked out
MutArraysAfter(d, id_target, iq_target, max_dist) ==
    LET within == WithinThreshold(Distances(IdData(d), IqData(d), id_target, iq_target),
                                  max_dist)
    IN  [i \in Idx(d) |-> IF within[i] THEN d[i] ELSE [d[i] EXCEPT !.psi_d = 0, !.psi_q = 0]]

\* lines 38-62: every statement builds a new array (arithmetic, comparison,
\* boolean-mask indexing, np.where); none assigns to or operates in place on
\* the four input arrays, which hold after the call what they held before
ArraysAfter(d, id_target, iq_target, max_dist) == d

SeqSamplePool ==
    { Sample(0, 0, 10, 100), Sample(1, 1, 20, 200), Sample(2, 2, 30, 300),
      Sample(1, 1, 30, 100) }

SeqDataSets == SeqsUpTo(SeqSamplePool, MaxSamples) \ {<<>>}

SeqTargets == {<<RInt(0), RInt(0)>>, <<RInt(1), RInt(1)>>}

SeqMaxDists == {FromRat(<<1, 1>>), FromRat(<<3, 1>>)}

InitIdwSeq ==
    /\ pc = "seq"
    /\ data \in SeqDataSets
    /\ idw_in = None /\ idw_out = None /\ idw_log = <<>>
    /\ GenIdle
    /\ DeriveIdle
    /\ CalcIdle
    /\ MainIdle

CallIdwSeq ==
    /\ pc = "seq"
    /\ Len(idw_log) < MaxCalls
    /\ \E t \in SeqTargets, m \in SeqMaxDists :
          /\ idw_in' = [id_target |-> t[1], iq_target |-> t[2], max_dist |-> m]
          /\ idw_out' = Idw(data, t[1], t[2], m)
          /\ data' = ArraysAfter(data, t[1], t[2], m)
          /\ idw_log' = Append(idw_log, [in |-> idw_in', before |-> data,
                                         out |-> idw_out', after |-> data'])
    /\ UNCHANGED <<pc, genVars, deriveVars, calcVars, mainVars>>

NextIdwSeq == CallIdwSeq

SpecIdwSeq == InitIdwSeq /\ [][NextIdwSeq]_vars

(***************************************************************************)
(* Claims about interpolate_idw, stated on the arguments and the result of *)
(* a call without the operators of the model's pipeline.                   *)
(***************************************************************************)
Called == pc = "called"

\* squared Euclidean distance of sample i of the data set to the query
D2(i) ==
    LET dx == RSub(RInt(data[i].id), idw_in.id_target)
        dy == RSub(RInt(data[i].iq), idw_in.iq_target)
    IN  RAdd(RMul(dx, dx), RMul(dy, dy))

\* sample i lies strictly within max_dist of the query
Near(i) == idw_in.max_dist.s = 1 /\ RLt(D2(i), idw_in.max_dist.q)

NearSet == {i \in Idx(data) : Near(i)}

ValueAt(i) == <<RInt(data[i].psi_d), RInt(data[i].psi_q)>>

TestData ==
    <<Sample(0, 0, 10, 100), Sample(1, 1, 20, 200), Sample(2, 2, 30, 300)>>

\* C1: when no sample is strictly within max_dist (a sample at distance
\* exactly max_dist is outside), the result is exactly the value pair stored
\* at a sample of minimum distance, unweighted.
C1_Fallback ==
    (Called /\ NearSet = {}) =>
        \E k \in Idx(data) :
            /\ \A j \in Idx(data) : ~RLt(D2(j), D2(k))
            /\ idw_out = ValueAt(k)

\* the fallback is taken although a sample lies at distance exactly max_dist,
\* and the nearest sample is not the first of several
C1_Witness ==
    /\ Called
    /\ NearSet = {}
    /\ Len(data) >= 2
    /\ idw_in.max_dist.s = 1
    /\ \E i \in Idx(data) : D2(i) = idw_in.max_dist.q
    /\ idw_out # ValueAt(1)

\* the weight 1 / max(distance, 0.001) of sample i, in units of 0.001
WeightOf(i) ==
    LET milli == ISqrt((D2(i)[1] * 1000000) \div D2(i)[2])
    IN  1000000 \div (IF milli < 1 THEN 1 ELSE milli)

RECURSIVE SumOver(_, _)
SumOver(S, f) ==
    IF S = {} THEN 0
    ELSE LET i == CHOOSE j \in S : TRUE
         IN  f[i] + SumOver(S \ {i}, f)

\* C2: when some sample is strictly within max_dist, the result is
\* sum(w_i * v_i) / sum(w_i) over exactly the samples within max_dist, with
\* w_i = 1 / max(distance_i, 0.001) and the same weights for psi_d and psi_q;
\* with all retained samples at one distance it is their arithmetic mean, and
\* the test's query (0.5, 0.5) with max_dist 1.0 gives (15, 150).
C2_Weighted ==
    (Called /\ NearSet # {}) =>
        LET w == [i \in Idx(data) |-> WeightOf(i)]
            vd == [i \in Idx(data) |-> data[i].psi_d * w[i]]
            vq == [i \in Idx(data) |-> data[i].psi_q * w[i]]
            pd == [i \in Idx(data) |-> data[i].psi_d]
            pq == [i \in Idx(data) |-> data[i].psi_q]
        IN  /\ idw_out[1] = Norm(SumOver(NearSet, vd), SumOver(NearSet, w))
            /\ idw_out[2] = Norm(SumOver(NearSet, vq), SumOver(NearSet, w))
            /\ (\A i, j \in NearSet : D2(i) = D2(j)) =>
                  /\ idw_out[1] = Norm(SumOver(NearSet, pd), Cardinality(NearSet))
                  /\ idw_out[2] = Norm(SumOver(NearSet, pq), Cardinality(NearSet))
            /\ ( /\ data = TestData
                 /\ idw_in = [id_target |-> <<1, 2>>, iq_target |-> <<1, 2>>,
                              max_dist |-> FromRat(<<1, 1>>)] ) =>
                  idw_out = <<RInt(15), RInt(150)>>

\* the weighted branch with retained samples at different distances and a
\* sample left out
C2_Witness ==
    /\ Called
    /\ \E i, j \in NearSet : D2(i) # D2(j)
    /\ NearSet # Idx(data)
    /\ idw_out[2] # RMul(RInt(10), idw_out[1])

\* C3: when the query coincides with a sample's coordinates and that sample
\* is the only one strictly within max_dist, the result is exactly that
\* sample's value pair.
C3_ExactHit ==
    Called =>
        \A k \in Idx(data) :
            (D2(k) = <<0, 1>> /\ NearSet = {k}) => idw_out = ValueAt(k)

\* an exact hit on a sample that is not the first, other samples outside
C3_Witness ==
    /\ Called
    /\ Len(data) >= 2
    /\ \E k \in Idx(data) : k > 1 /\ D2(k) = <<0, 1>> /\ NearSet = {k}

\* the coordinates that have a sample strictly within max_dist, and the
\* samples at a coordinate
NearCoords == {<<data[i].id, data[i].iq>> : i \in NearSet}
SamplesAt(c) == {i \in Idx(data) : <<data[i].id, data[i].iq>> = c}
FirstAt(c) == CHOOSE i \in SamplesAt(c) : \A j \in SamplesAt(c) : i <= j

\* C18: samples that share their coordinates are all retained: in the
\* weighted average a coordinate present k times carries k times the weight
\* of one sample at that distance, and contributes the sum of its k values.
C18_Duplicates ==
    (Called /\ NearSet # {}) =>
        LET w == [c \in NearCoords |-> WeightOf(FirstAt(c)) * Cardinality(SamplesAt(c))]
            vd == [c \in NearCoords |->
                     WeightOf(FirstAt(c)) * SumOver(SamplesAt(c), [i \in Idx(data) |-> data[i].psi_d])]
            vq == [c \in NearCoords |->
                     WeightOf(FirstAt(c)) * SumOver(SamplesAt(c), [i \in Idx(data) |-> data[i].psi_q])]
        IN  /\ idw_out[1] = Norm(SumOver(NearCoords, vd), SumOver(NearCoords, w))
            /\ idw_out[2] = Norm(SumOver(NearCoords, vq), SumOver(NearCoords, w))

\* two samples of different values at one coordinate and a third sample at
\* another distance, all within max_dist
C18_Witness ==
    /\ Called
    /\ \E i, j, k \in NearSet :
          /\ i # j
          /\ data[i].id = data[j].id /\ data[i].iq = data[j].iq
          /\ data[i].psi_d # data[j].psi_d
          /\ D2(k) # D2(i)

Coincident == \A i, j \in Idx(data) : data[i].id = data[j].id /\ data[i].iq = data[j].iq

\* C11: for every non-empty sample set, every query and every max_dist,
\* max_dist <= 0 included, interpolate_idw returns a pair of finite values;
\* with max_dist <= 0 no sample is eligible and the result is the value pair
\* of a nearest sample.
C11_NeverFails ==
    Called =>
        /\ Len(idw_out) = 2
        /\ IsFinite(idw_out[1]) /\ IsFinite(idw_out[2])
        /\ idw_in.max_dist.s <= 0 =>
              \E k \in Idx(data) :
                  /\ \A j \in Idx(data) : ~RLt(D2(j), D2(k))
                  /\ idw_out = ValueAt(k)

\* all samples coincide, max_dist is 0 (what generate_pmac_tables computes for
\* such data) and the query is at the samples' coordinates
C11_Witness ==
    /\ Called
    /\ Len(data) >= 2 /\ Coincident
    /\ idw_in.max_dist.s = 0
    /\ D2(1) = <<0, 1>>

(***************************************************************************)
(* generate_pmac_tables (table_generator.py:67-180).                       *)
(*                                                                         *)
(* table_params is [size, maxCurrent]; size is a tagged Python value       *)
(* [ty, val] so that isinstance(size, int) can fail; maxCurrent is an      *)
(* integer number of amperes.  The function runs as the steps              *)
(*   Validate (lines 100-103), Setup (105-131), Node (136-153, one grid    *)
(*   node), EndColumn (155-158), Return (160-180).                         *)
(***************************************************************************)
PyInt(n) == [ty |-> "int", val |-> n]
PyFloat(n) == [ty |-> "float", val |-> n]

SizeVals == {PyInt(n) : n \in -1..MaxSize} \cup {PyFloat(2)}
MaxCurrentVals == {-1, 0, 1, 2}

TableParams == [size : SizeVals, maxCurrent : MaxCurrentVals]

\* faulty variant: the assertion on maxCurrent is missing
MutValidationError(tp) ==
    IF tp.size.ty # "int" THEN "Table size must be integer"
    ELSE IF ~(tp.size.val > 0) THEN "Table size must be positive"
    ELSE None

\* lines 101-103: the message of the first assertion that fails, or None
ValidationError(tp) ==
    IF tp.size.ty # "int" THEN "Table size must be integer"
    ELSE IF ~(tp.size.val > 0) THEN "Table size must be positive"
    ELSE IF ~(tp.maxCurrent > 0) THEN "Max current must be positive"
    ELSE None

\* np.linspace(start, stop, num) for integers start, stop: num evenly spaced
\* rationals, the last one stop itself
LinSpace(start, stop, num) ==
    [k \in 1..num |->
        IF num = 1 THEN RInt(start)
        ELSE Norm(start * (num - 1) + (k - 1) * (stop - start), num - 1)]

\* faulty variant: the Id axis runs from -max_current up to 0
MutIdGrid(max_current, size) == LinSpace(-max_current, 0, size)

\* line 112
IdGrid(max_current, size) == LinSpace(0, -max_current, size)

\* line 113
IqGrid(max_current, size) == LinSpace(0, max_current, size)

SeqMax(arr) == CHOOSE m \in {arr[i] : i \in Idx(arr)} : \A i \in Idx(arr) : arr[i] <= m
SeqMin(arr) == CHOOSE m \in {arr[i] : i \in Idx(arr)} : \A i \in Idx(arr) : m <= arr[i]

\* faulty variant: the diagonal of the data spread, not half of it
MutMaxDist(id_data, iq_data) ==
    LET id_data_range == SeqMax(id_data) - SeqMin(id_data)
        iq_data_range == SeqMax(iq_data) - SeqMin(iq_data)
    IN  Sqrt(RInt(id_data_range * id_data_range + iq_data_range * iq_data_range))

\* lines 123-125
MaxDist(id_data, iq_data) ==
    LET id_data_range == SeqMax(id_data) - SeqMin(id_data)
        iq_data_range == SeqMax(iq_data) - SeqMin(iq_data)
    IN  RootHalf(Sqrt(RInt(id_data_range * id_data_range + iq_data_range * iq_data_range)))

\* lines 130-131: np.zeros((size, size)), indexed [row][column] from 0
Zeros(size) == [r \in 0..(size - 1) |-> [c \in 0..(size - 1) |-> RInt(0)]]

\* faulty variant: the loops stop one index early
MutRangeEnd(size) == size - 1

\* lines 135, 138: range(size) ends before size
RangeEnd(size) == size

\* faulty variant: the table is written at [y, y]
MutCellIndexDiag(xi, yi) == <<yi, yi>>

\* faulty variant: the table is written at [x, y]
MutCellIndex(xi, yi) == <<xi, yi>>

\* lines 152-153: the cell written for loop indices x (Id) and y (Iq)
CellIndex(xi, yi) == <<yi, xi>>

\* Python round() of size / 10: to the nearest integer, halves to even
RoundTenth(size) ==
    LET q == size \div 10
        r == size % 10
    IN  IF r < 5 THEN q
        ELSE IF r > 5 THEN q + 1
        ELSE IF q % 2 = 0 THEN q ELSE q + 1

\* line 156
ProgressDue(xi, size) ==
    LET every == IF RoundTenth(size) > 1 THEN RoundTenth(size) ELSE 1
    IN  (xi + 1) % every = 0

\* line 161: np.meshgrid(id_grid, iq_grid), rows follow the second argument
MeshGrid(xs, ys) ==
    <<[r \in 0..(Len(ys) - 1) |-> [c \in 0..(Len(xs) - 1) |-> xs[c + 1]]],
      [r \in 0..(Len(ys) - 1) |-> [c \in 0..(Len(xs) - 1) |-> ys[r + 1]]]>>

InitGen ==
    /\ pc = "entry"
    /\ data \in DataSets
    /\ table_params \in TableParams
    /\ idw_in = None /\ idw_out = None /\ idw_log = <<>>
    /\ id_grid = <<>> /\ iq_grid = <<>>
    /\ gen_max_dist = NoRec /\ x = None /\ y = None
    /\ psi_d_table = <<>> /\ psi_q_table = <<>> /\ writes = <<>>
    /\ idw_calls = 0 /\ evals = {} /\ columns_read = FALSE /\ progress = <<>> /\ ret = NoRec
    /\ DeriveIdle
    /\ CalcIdle
    /\ MainIdle

\* lines 100-103
Validate ==
    /\ pc = "entry"
    /\ IF ValidationError(table_params) # None
       THEN /\ pc' = "raised"
            /\ ret' = [error |-> "AssertionError",
                       message |-> ValidationError(table_params)]
       ELSE /\ pc' = "validated"
            /\ ret' = ret
    /\ UNCHANGED <<data, idwVars, deriveVars, calcVars, mainVars, evals, table_params, id_grid, iq_grid, gen_max_dist, x, y,
                   psi_d_table, psi_q_table, writes, idw_calls, columns_read, progress>>

\* line 110: max_current / (size - 1) divides by zero for size = 1
SetupRaise ==
    /\ pc = "validated"
    /\ table_params.size.val - 1 = 0
    /\ pc' = "raised"
    /\ ret' = [error |-> "ZeroDivisionError", message |-> "division by zero"]
    /\ UNCHANGED <<data, idwVars, deriveVars, calcVars, mainVars, evals, table_params, id_grid, iq_grid, gen_max_dist, x, y,
                   psi_d_table, psi_q_table, writes, idw_calls, columns_read, progress>>

\* lines 105-131, and the entry of the outer loop
Setup ==
    /\ pc = "validated"
    /\ table_params.size.val - 1 # 0
    /\ LET size == table_params.size.val
           max_current == table_params.maxCurrent
       IN  /\ id_grid' = IdGrid(max_current, size)
           /\ iq_grid' = IqGrid(max_current, size)
           /\ columns_read' = TRUE
           /\ gen_max_dist' = MaxDist(IdData(data), IqData(data))
           /\ psi_d_table' = Zeros(size)
           /\ psi_q_table' = Zeros(size)
           /\ writes' = [r \in 0..(size - 1) |-> [c \in 0..(size - 1) |-> 0]]
    /\ x' = 0
    /\ y' = 0
    /\ pc' = "loop"
    /\ UNCHANGED <<data, idwVars, deriveVars, calcVars, mainVars, evals, table_params, idw_calls, progress, ret>>

\* lines 136-153: one pass of the inner loop body
Node ==
    /\ pc = "loop"
    /\ x < RangeEnd(table_params.size.val)
    /\ y < RangeEnd(table_params.size.val)
    /\ \E id_target \in {id_grid[x + 1]}, iq_target \in {iq_grid[y + 1]} :
       \E psi \in {Idw(data, id_target, iq_target, gen_max_dist)} :
          LET cell == CellIndex(x, y)
          IN  /\ psi_d_table' = [psi_d_table EXCEPT ![cell[1]][cell[2]] = psi[1]]
              /\ psi_q_table' = [psi_q_table EXCEPT ![cell[1]][cell[2]] = psi[2]]
              /\ writes' = [writes EXCEPT ![cell[1]][cell[2]] = @ + 1]
              /\ idw_in' = [id_target |-> id_target, iq_target |-> iq_target,
                            max_dist |-> gen_max_dist]
              /\ idw_out' = psi
              /\ data' = ArraysAfter(data, id_target, iq_target, gen_max_dist)
    /\ idw_calls' = idw_calls + 1
    /\ y' = y + 1
    /\ UNCHANGED <<pc, idw_log, deriveVars, calcVars, mainVars, evals, table_params, id_grid,
                   iq_grid, gen_max_dist, x, columns_read, progress, ret>>

\* lines 155-158: the inner loop is over; progress, next column
EndColumn ==
    /\ pc = "loop"
    /\ x < RangeEnd(table_params.size.val)
    /\ ~(y < RangeEnd(table_params.size.val))
    /\ progress' = IF ProgressDue(x, table_params.size.val)
                   THEN Append(progress, Norm(100 * (x + 1), table_params.size.val))
                   ELSE progress
    /\ x' = x + 1
    /\ y' = 0
    /\ UNCHANGED <<pc, data, idwVars, deriveVars, calcVars, mainVars, evals, table_params, id_grid, iq_grid, gen_max_dist,
                   psi_d_table, psi_q_table, writes, idw_calls, columns_read, ret>>

\* lines 160-180
Return ==
    /\ pc = "loop"
    /\ ~(x < RangeEnd(table_params.size.val))
    /\ ret' = [psi_d |-> psi_d_table, psi_q |-> psi_q_table,
               id_grid |-> id_grid, iq_grid |-> iq_grid,
               id_matrix |-> MeshGrid(id_grid, iq_grid)[1],
               iq_matrix |-> MeshGrid(id_grid, iq_grid)[2]]
    /\ pc' = "returned"
    /\ UNCHANGED <<data, idwVars, deriveVars, calcVars, mainVars, evals, table_params, id_grid, iq_grid, gen_max_dist, x, y,
                   psi_d_table, psi_q_table, writes, idw_calls, columns_read, progress>>

NextGen == Validate \/ SetupRaise \/ Setup \/ Node \/ EndColumn \/ Return

SpecGen == InitGen /\ [][NextGen]_vars

(***************************************************************************)
(* Claims about generate_pmac_tables.                                      *)
(***************************************************************************)
Returned == pc = "returned"

\* the table parameters pass the three assertions
Accepted ==
    /\ table_params.size.ty = "int"
    /\ table_params.size.val > 0
    /\ table_params.maxCurrent > 0

GridRange == 0..(table_params.size.val - 1)

\* interpolate_idw for the grid node of row r (Iq) and column c (Id)
NodeValue(r, c) == Idw(data, id_grid[c + 1], iq_grid[r + 1], gen_max_dist)

\* C4: for a grid size N >= 2, when generate_pmac_tables returns, each of the
\* N*N cells of psi_d and psi_q has been written exactly once, with the
\* result of interpolate_idw for its node, after exactly N*N interpolation
\* calls; no cell is written twice on the way.
C4_EveryNode ==
    /\ (pc \in {"loop", "returned"}) =>
          \A r \in GridRange, c \in GridRange : writes[r][c] <= 1
    /\ Returned =>
          /\ idw_calls = table_params.size.val * table_params.size.val
          /\ \A r \in GridRange, c \in GridRange :
                /\ writes[r][c] = 1
                /\ <<ret.psi_d[r][c], ret.psi_q[r][c]>> = NodeValue(r, c)

\* a 3 x 3 table is returned, none of its cells at the placeholder 0
C4_Witness ==
    /\ Returned
    /\ table_params.size.val = 3
    /\ \A r \in GridRange, c \in GridRange : ret.psi_d[r][c] # RInt(0)
    /\ \E r \in GridRange, c \in GridRange : ret.psi_d[r][c] # ret.psi_d[0][0]

\* C5 (as claimed): for every grid size N >= 1 that passes validation, every
\* max current > 0 and every non-empty sample set, generate_pmac_tables
\* returns psi_d, psi_q, id_matrix, iq_matrix of shape N x N and id_grid,
\* iq_grid of length N.
C5_Shape ==
    (pc \in {"returned", "raised"} /\ Accepted) =>
        /\ Returned
        /\ \A t \in {ret.psi_d, ret.psi_q, ret.id_matrix, ret.iq_matrix} :
              /\ DOMAIN t = GridRange
              /\ \A r \in GridRange : DOMAIN t[r] = GridRange
        /\ Len(ret.id_grid) = table_params.size.val
        /\ Len(ret.iq_grid) = table_params.size.val

\* C6: for N >= 2 and max_current > 0, id_grid starts at 0, ends at
\* -max_current and is strictly decreasing; iq_grid starts at 0, ends at
\* +max_current and is strictly increasing; every node has Id <= 0 and
\* Iq >= 0, and id_grid[k] = -iq_grid[k] for every k.
C6_Grid ==
    (id_grid # <<>>) =>
        LET N == table_params.size.val
            mc == table_params.maxCurrent
        IN  /\ N >= 2 /\ mc > 0
            /\ Len(id_grid) = N /\ Len(iq_grid) = N
            /\ id_grid[1] = <<0, 1>> /\ id_grid[N] = <<-mc, 1>>
            /\ iq_grid[1] = <<0, 1>> /\ iq_grid[N] = <<mc, 1>>
            /\ \A k \in 1..(N - 1) :
                  /\ RLt(id_grid[k + 1], id_grid[k])
                  /\ RLt(iq_grid[k], iq_grid[k + 1])
            /\ \A k \in 1..N :
                  /\ ~RLt(<<0, 1>>, id_grid[k])
                  /\ ~RLt(iq_grid[k], <<0, 1>>)
                  /\ id_grid[k][1] = -iq_grid[k][1]
                  /\ id_grid[k][2] = iq_grid[k][2]

\* a grid of three points over 1 A: the middle node is at (-1/2, 1/2)
C6_Witness ==
    /\ Len(id_grid) = 3
    /\ id_grid[2] = <<-1, 2>>
    /\ iq_grid[2] = <<1, 2>>

\* C7: in the returned tables the cell at row r, column c holds the
\* interpolation result for (Id = id_grid[c], Iq = iq_grid[r]), and
\* id_matrix[r][c] = id_grid[c], iq_matrix[r][c] = iq_grid[r].
C7_Indexing ==
    Returned =>
        \A r \in GridRange, c \in GridRange :
            /\ <<ret.psi_d[r][c], ret.psi_q[r][c]>> =
                  Idw(data, ret.id_grid[c + 1], ret.iq_grid[r + 1], gen_max_dist)
            /\ ret.id_matrix[r][c] = ret.id_grid[c + 1]
            /\ ret.iq_matrix[r][c] = ret.iq_grid[r + 1]

\* a returned table that differs from its transpose
C7_Witness ==
    /\ Returned
    /\ \E r \in GridRange, c \in GridRange : ret.psi_d[r][c] # ret.psi_d[c][r]

\* C8: when the grid size is not an integer or is <= 0, or the max current is
\* <= 0, generate_pmac_tables fails before it reads a sample column, computes
\* max_dist, calls interpolate_idw or prints progress, and returns no table.
C8_Eager ==
    (~Accepted) =>
        /\ pc \in {"entry", "raised"}
        /\ ~columns_read
        /\ gen_max_dist = NoRec
        /\ idw_calls = 0
        /\ progress = <<>>
        /\ id_grid = <<>> /\ psi_d_table = <<>> /\ psi_q_table = <<>>
        /\ (pc = "entry") => ret = NoRec
        /\ (pc = "raised") => ret.error = "AssertionError"

\* the call has failed on a max current of 0 with a valid size
C8_Witness ==
    /\ pc = "raised"
    /\ table_params.size = PyInt(3)
    /\ table_params.maxCurrent = 0
    /\ ret = [error |-> "AssertionError", message |-> "Max current must be positive"]

(***************************************************************************)
(* SpecPar: the loop body of lines 136-153 run for the N*N nodes in any    *)
(* order and interleaved.  An evaluation is two steps: the call of         *)
(* interpolate_idw on the shared arrays with the node's targets (lines     *)
(* 136-150), and the two table assignments (lines 152-153).  Several       *)
(* evaluations may be between their two steps at once.  The state at the   *)
(* start is the one Setup leaves.                                          *)
(***************************************************************************)
ParDataSets ==
    { <<Sample(0, 0, 10, 100), Sample(-1, 1, 40, 200), Sample(-2, 0, 10, 300)>>,
      <<Sample(1, 1, 20, 200), Sample(1, 1, 30, 100), Sample(-2, 0, 10, 300)>> }

ParTableParams == {[size |-> PyInt(n), maxCurrent |-> 2] : n \in 2..MaxParSize}

InitPar ==
    /\ pc = "par"
    /\ data \in ParDataSets
    /\ table_params \in ParTableParams
    /\ id_grid = IdGrid(table_params.maxCurrent, table_params.size.val)
    /\ iq_grid = IqGrid(table_params.maxCurrent, table_params.size.val)
    /\ columns_read = TRUE
    /\ gen_max_dist = MaxDist(IdData(data), IqData(data))
    /\ psi_d_table = Zeros(table_params.size.val)
    /\ psi_q_table = Zeros(table_params.size.val)
    /\ writes = [r \in 0..(table_params.size.val - 1) |->
                    [c \in 0..(table_params.size.val - 1) |-> 0]]
    /\ x = None /\ y = None
    /\ idw_calls = 0 /\ evals = {} /\ progress = <<>> /\ ret = NoRec
    /\ idw_in = None /\ idw_out = None /\ idw_log = <<>>
    /\ DeriveIdle
    /\ CalcIdle
    /\ MainIdle

\* lines 136-150 for a node whose evaluation has not begun
ParEval ==
    /\ pc = "par"
    /\ \E xi \in 0..(RangeEnd(table_params.size.val) - 1),
          yi \in 0..(RangeEnd(table_params.size.val) - 1) :
          /\ ~(\E e \in evals : e.x = xi /\ e.y = yi)
          /\ \E id_target \in {id_grid[xi + 1]}, iq_target \in {iq_grid[yi + 1]} :
             \E psi \in {Idw(data, id_target, iq_target, gen_max_dist)} :
                /\ evals' = evals \cup {[x |-> xi, y |-> yi, psi |-> psi, written |-> FALSE]}
                /\ idw_in' = [id_target |-> id_target, iq_target |-> iq_target,
                              max_dist |-> gen_max_dist]
                /\ idw_out' = psi
                /\ data' = ArraysAfter(data, id_target, iq_target, gen_max_dist)
    /\ idw_calls' = idw_calls + 1
    /\ UNCHANGED <<pc, idw_log, deriveVars, calcVars, mainVars, table_params, id_grid, iq_grid,
                   gen_max_dist, x, y, psi_d_table, psi_q_table, writes, columns_read,
                   progress, ret>>

\* lines 152-153 for an evaluation that has its result
ParWrite ==
    /\ pc = "par"
    /\ \E e \in evals :
          /\ ~e.written
          /\ LET cell == CellIndex(e.x, e.y)
             IN  /\ psi_d_table' = [psi_d_table EXCEPT ![cell[1]][cell[2]] = e.psi[1]]
                 /\ psi_q_table' = [psi_q_table EXCEPT ![cell[1]][cell[2]] = e.psi[2]]
                 /\ writes' = [writes EXCEPT ![cell[1]][cell[2]] = @ + 1]
          /\ evals' = (evals \ {e}) \cup {[e EXCEPT !.written = TRUE]}
    /\ UNCHANGED <<pc, data, idwVars, deriveVars, calcVars, mainVars, table_params, id_grid, iq_grid,
                   gen_max_dist, x, y, idw_calls, columns_read, progress, ret>>

NextPar == ParEval \/ ParWrite

SpecPar == InitPar /\ [][NextPar]_vars

\* every node has been evaluated and written
ParDone ==
    /\ Cardinality(evals) = table_params.size.val * table_params.size.val
    /\ \A e \in evals : e.written

\* C20: with the N*N node evaluations run in any order and interleaved, no
\* cell is written by two evaluations, an evaluation writes only its own
\* cell [y, x] with its own result and leaves every other cell as it was,
\* and the finished tables hold the values the sequential loops produce, so
\* that they are the same under every order.
C20_Independent ==
    /\ \A r \in GridRange, c \in GridRange :
          /\ writes[r][c] <= 1
          /\ writes[r][c] = 1 =>
                \E e \in evals :
                    /\ e.x = c /\ e.y = r /\ e.written
                    /\ <<psi_d_table[r][c], psi_q_table[r][c]>> = e.psi
          /\ writes[r][c] = 0 =>
                /\ <<psi_d_table[r][c], psi_q_table[r][c]>> = <<RInt(0), RInt(0)>>
                /\ ~(\E e \in evals : e.x = c /\ e.y = r /\ e.written)
    /\ ParDone =>
          \A r \in GridRange, c \in GridRange :
              /\ writes[r][c] = 1
              /\ <<psi_d_table[r][c], psi_q_table[r][c]>> = NodeValue(r, c)

\* all nodes are written, the evaluation begun last is that of node (0, 0),
\* which the sequential loops evaluate first, and the table is not constant
C20_Witness ==
    /\ pc = "par"
    /\ ParDone
    /\ idw_in.id_target = id_grid[1] /\ idw_in.iq_target = iq_grid[1]
    /\ \E r \in GridRange, c \in GridRange : psi_d_table[r][c] # psi_d_table[0][0]

\* the squared diagonal of the bounding box of the sample coordinates
SpreadSq ==
    LET ids == {data[i].id : i \in Idx(data)}
        iqs == {data[i].iq : i \in Idx(data)}
        id_range == (CHOOSE m \in ids : \A v \in ids : v <= m)
                    - (CHOOSE m \in ids : \A v \in ids : m <= v)
        iq_range == (CHOOSE m \in iqs : \A v \in iqs : v <= m)
                    - (CHOOSE m \in iqs : \A v \in iqs : m <= v)
    IN  id_range * id_range + iq_range * iq_range

\* sqrt(SpreadSq) / 2 as a root
HalfDiagonal == [s |-> IF SpreadSq = 0 THEN 0 ELSE 1, q |-> Norm(SpreadSq, 4)]

\* C17: max_dist is sqrt((max(id) - min(id))^2 + (max(iq) - min(iq))^2) / 2
\* over all sample coordinates, whatever the grid size and the max current,
\* and that value is the max_dist argument of every per-node call.
C17_MaxDist ==
    /\ gen_max_dist # NoRec => gen_max_dist = HalfDiagonal
    /\ idw_calls > 0 => idw_in.max_dist = HalfDiagonal

\* a returned run over samples that spread along both axes by different amounts
C17_Witness ==
    /\ Returned
    /\ idw_calls > 1
    /\ table_params.maxCurrent > 1
    /\ \E i, j \in Idx(data) :
          /\ data[i].id # data[j].id /\ data[i].iq # data[j].iq
          /\ Abs(data[i].id - data[j].id) # Abs(data[i].iq - data[j].iq)
    /\ idw_in.max_dist = HalfDiagonal

(***************************************************************************)
(* get_motor_parameters (motor_parameters.py:9-71) and process_data        *)
(* (data_processor.py:37-126).                                             *)
(*                                                                         *)
(* Derived values are extended rationals: <<n, d>> with d > 0, and the     *)
(* doubles that are not finite as <<1, 0>> (inf), <<-1, 0>> (-inf) and     *)
(* <<0, 0>> (nan).  Quantities that carry an irrational factor are kept in *)
(* units of that factor: the electrical frequency in units of 2*pi/60      *)
(* rad/s (so the flux linkages and the torque in units of 60/(2*pi)), and  *)
(* psi_wb in units of sqrt(6)/(100*pi) Wb.                                 *)
(***************************************************************************)

\* a / b for finite a and b, where a division by zero does not raise
XDiv(a, b) ==
    IF b[1] = 0 THEN <<RSign(a), 0>>
    ELSE Norm(a[1] * b[2], a[2] * b[1])

\* a * b in IEEE arithmetic
XMul(a, b) ==
    IF IsNaN(a) \/ IsNaN(b) THEN NaN
    ELSE IF IsFinite(a) /\ IsFinite(b) THEN RMul(a, b)
    ELSE <<RSign(a) * RSign(b), 0>>

\* a - b in IEEE arithmetic
XSub(a, b) ==
    IF IsNaN(a) \/ IsNaN(b) THEN NaN
    ELSE IF IsFinite(a) /\ IsFinite(b) THEN RSub(a, b)
    ELSE IF IsFinite(b) THEN a
    ELSE IF IsFinite(a) THEN <<-b[1], 0>>
    ELSE IF a = b THEN NaN ELSE a

\* what was typed at a prompt: nothing, a number, or text that is no number
Blank == [kind |-> "blank"]
Typed(v) == [kind |-> "number", val |-> v]
Garbage == [kind |-> "garbage"]

PolePairVals == {-1, 0, 1, 2}

UserInputs ==
    [pole_pairs : {Blank, Garbage} \cup {Typed(n) : n \in PolePairVals},
     rs_ohm : {Blank, Garbage, Typed(<<0, 1>>)},
     ke_v_krpm : {Blank, Typed(<<6, 1>>)}]

MotorConfigs ==
    {[motor |-> [pole_pairs |-> p, rs_ohm |-> <<1, 2>>, ke_v_krpm |-> <<3, 1>>]] :
        p \in {0, 2}}

\* faulty variant: no guard on the pole-pair count
MutKeToPsi(ke_v_krpm, pole_pairs) == XDiv(ke_v_krpm, RInt(pole_pairs))

\* machine.py:35-48: psi_pm in units of sqrt(6)/(100*pi) gives Ke in V/krpm
psi_to_ke(psi_pm, pole_pairs) ==
    IF pole_pairs <= 0 THEN <<0, 1>>
    ELSE RMul(psi_pm, RInt(pole_pairs))

\* machine.py:10-32, in units of sqrt(6)/(100*pi)
ke_to_psi(ke_v_krpm, pole_pairs) ==
    IF pole_pairs <= 0 THEN <<0, 1>>
    ELSE XDiv(ke_v_krpm, RInt(pole_pairs))

\* int(user_input) or float(user_input) if user_input.strip() else the default
Answer(inp, default) == IF inp.kind = "number" THEN inp.val ELSE default

\* motor_parameters.py:30-71: the returned dictionary, or the error raised
get_motor_parameters(cfg, inp) ==
    IF \E k \in {"pole_pairs", "rs_ohm", "ke_v_krpm"} : inp[k].kind = "garbage"
    THEN [error |-> "ValueError"]
    ELSE LET pole_pairs == Answer(inp.pole_pairs, cfg.motor.pole_pairs)
             stator_resistance == Answer(inp.rs_ohm, cfg.motor.rs_ohm)
             ke_v_krpm == Answer(inp.ke_v_krpm, cfg.motor.ke_v_krpm)
         IN  [actual |-> [pole_pairs |-> pole_pairs,
                          rs_ohm |-> stator_resistance,
                          ke_v_krpm |-> ke_v_krpm,
                          psi_wb |-> ke_to_psi(ke_v_krpm, pole_pairs)]]

\* the same parameters under the keys process_data reads (its docstring's
\* example {'actual': {'polePairs': 4, 'statorResistance': 0.1}})
Documented(mp) ==
    [actual |-> [polePairs |-> mp.actual.pole_pairs,
                 statorResistance |-> mp.actual.rs_ohm]]

Row(speed, ud, uq, i_d, i_q) ==
    [speedRpm |-> speed, voltageDAxisVpeak |-> ud, voltageQAxisVpeak |-> uq,
     currentDAxisApeak |-> i_d, currentQAxisApeak |-> i_q]

RowPool ==
    { Row(30, -2, 4, -1, 2), Row(0, 0, 0, 0, 0), Row(0, 1, 3, -2, 1),
      Row(-30, -1, 2, 0, 1), Row(60, 3, 6, -2, 2) }

RawDataSets == SeqsUpTo(RowPool, MaxRows) \ {<<>>}

\* faulty variant: the absolute value is missing
MutElectricalFrequency(mechanical_speed_rpm, pole_pairs) ==
    mechanical_speed_rpm * pole_pairs

\* frequency.py:10-28, in units of 2*pi/60 rad/s
electrical_frequency(mechanical_speed_rpm, pole_pairs) ==
    Abs(mechanical_speed_rpm) * pole_pairs

\* faulty variant: the current is left out of the product
MutFluxLinkageDAxis(d_axis_current, inductance_d) == inductance_d

\* flux.py:8-23
flux_linkage_d_axis(d_axis_current, inductance_d) == RMul(inductance_d, d_axis_current)

\* flux.py:26-41
flux_linkage_q_axis(q_axis_current, inductance_q) == RMul(inductance_q, q_axis_current)

\* faulty variant: the opposite sign convention, ((Rs*iq) - uq)/we
MutFluxLinkageDVoltage(voltage_q_axis, current_q_axis, electrical_frequency_rads, stator_resistance) ==
    XDiv(RSub(RMul(stator_resistance, RInt(current_q_axis)), RInt(voltage_q_axis)),
         RInt(electrical_frequency_rads))

\* flux.py:44-67 (imported by data_processor.py as flux_linkage_d_voltage)
flux_linkage_d_voltage(voltage_q_axis, current_q_axis, electrical_frequency_rads, stator_resistance) ==
    XDiv(RNeg(RSub(RMul(stator_resistance, RInt(current_q_axis)), RInt(voltage_q_axis))),
         RInt(electrical_frequency_rads))

\* flux.py:70-93 (imported by data_processor.py as flux_linkage_q_voltage)
flux_linkage_q_voltage(voltage_d_axis, current_d_axis, electrical_frequency_rads, stator_resistance) ==
    XDiv(RSub(RMul(stator_resistance, RInt(current_d_axis)), RInt(voltage_d_axis)),
         RInt(electrical_frequency_rads))

\* faulty variant: each flux linkage is multiplied by the current of its own axis
MutTorqueFlux(flux_linkage_d_axis_wb, flux_linkage_q_axis_wb, current_q_axis_a, current_d_axis_a, pole_pairs) ==
    XMul(XMul(<<3, 2>>, RInt(pole_pairs)),
         XSub(XMul(flux_linkage_d_axis_wb, current_d_axis_a),
              XMul(flux_linkage_q_axis_wb, current_q_axis_a)))

\* torque.py:8-33
calculate_torque_flux_nm(flux_linkage_d_axis_wb, flux_linkage_q_axis_wb, current_q_axis_a, current_d_axis_a, pole_pairs) ==
    XMul(XMul(<<3, 2>>, RInt(pole_pairs)),
         XSub(XMul(flux_linkage_d_axis_wb, current_q_axis_a),
              XMul(flux_linkage_q_axis_wb, current_d_axis_a)))

\* the same function under the name data_processor.py imports, on a row's
\* integer currents
torque_flux(flux_linkage_d_axis_wb, flux_linkage_q_axis_wb, current_q_axis_a, current_d_axis_a, pole_pairs) ==
    calculate_torque_flux_nm(flux_linkage_d_axis_wb, flux_linkage_q_axis_wb,
                             RInt(current_q_axis_a), RInt(current_d_axis_a), pole_pairs)

\* data_processor.py:17-34: peak / sqrt(2), a root
peak_to_rms(peak_value) == [s |-> RSign(RInt(peak_value)), q |-> <<peak_value * peak_value, 2>>]

\* DataFrame.apply: a column computed row by row
WithColumn(frame, name, column) ==
    [i \in Idx(frame) |-> frame[i] @@ (name :> column[i])]

\* faulty variant: the d-axis flux computed from the d-axis voltage and current
MutFluxDLambda(row, stator_resistance) ==
    flux_linkage_d_voltage(row.voltageDAxisVpeak, row.currentDAxisApeak,
                           row.electricalFrequencyRads, stator_resistance)

\* data_processor.py:77-82: the lambda applied to each row
FluxDLambda(row, stator_resistance) ==
    flux_linkage_d_voltage(row.voltageQAxisVpeak, row.currentQAxisApeak,
                           row.electricalFrequencyRads, stator_resistance)

\* data_processor.py:87-92: the lambda applied to each row
FluxQLambda(row, stator_resistance) ==
    flux_linkage_q_voltage(row.voltageDAxisVpeak, row.currentDAxisApeak,
                           row.electricalFrequencyRads, stator_resistance)

\* faulty variant: line 65 without .copy(), the columns are added to the
\* caller's frame
MutCallerFrame(raw, working) == working

\* data_processor.py:65: the working frame is a (deep) copy, so the column
\* assignments of lines 71-120 leave the caller's frame as it was
CallerFrame(raw, working) == raw

\* a row whose flux-linkage division divides by zero
DividesByZero(frame) == \E i \in Idx(frame) : frame[i].electricalFrequencyRads = 0

InitDerive ==
    /\ pc = "motor_entry"
    /\ motor_config \in MotorConfigs
    /\ user_input \in UserInputs
    /\ raw_data \in RawDataSets
    /\ zero_division \in {"raise", "nonfinite"}
    /\ motor_params = NoRec /\ proc_arg = NoRec
    /\ processed_data = <<>> /\ proc_ret = NoRec
    /\ data = <<>> /\ idw_in = None /\ idw_out = None /\ idw_log = <<>>
    /\ GenIdle
    /\ CalcIdle
    /\ MainIdle

\* motor_parameters.py:30-71
GetMotorParameters ==
    /\ pc = "motor_entry"
    /\ motor_params' = get_motor_parameters(motor_config, user_input)
    /\ pc' = IF "error" \in DOMAIN motor_params' THEN "motor_raised" ELSE "motor_returned"
    /\ UNCHANGED <<data, idwVars, genVars, calcVars, mainVars, motor_config, user_input, raw_data,
                   zero_division, proc_arg, processed_data, proc_ret>>

\* data_processor.py:65-68: the copy, and the two parameters read by key;
\* the argument is what get_motor_parameters returned, or the same values
\* under the documented keys
ProcEnter ==
    /\ pc = "motor_returned"
    /\ \E arg \in {motor_params, Documented(motor_params)} :
          /\ proc_arg' = arg
          /\ IF {"polePairs", "statorResistance"} \subseteq DOMAIN arg.actual
             THEN /\ processed_data' = raw_data
                  /\ pc' = "proc_frequency"
                  /\ proc_ret' = proc_ret
             ELSE /\ processed_data' = raw_data
                  /\ pc' = "proc_raised"
                  /\ proc_ret' = [error |-> "KeyError"]
    /\ UNCHANGED <<data, idwVars, genVars, calcVars, mainVars, motor_config, user_input, motor_params,
                   raw_data, zero_division>>

\* data_processor.py:70-73
ProcFrequency ==
    /\ pc = "proc_frequency"
    /\ LET F(row) == electrical_frequency(row.speedRpm, proc_arg.actual.polePairs)
       IN  processed_data' = WithColumn(processed_data, "electricalFrequencyRads",
                  [i \in Idx(processed_data) |-> F(processed_data[i])])
    /\ pc' = "proc_flux_d"
    /\ raw_data' = CallerFrame(raw_data, processed_data')
    /\ UNCHANGED <<data, idwVars, genVars, calcVars, mainVars, motor_config, user_input, motor_params,
                   zero_division, proc_arg, proc_ret>>

\* data_processor.py:75-84
ProcFluxD ==
    /\ pc = "proc_flux_d"
    /\ IF zero_division = "raise" /\ DividesByZero(processed_data)
       THEN /\ pc' = "proc_raised"
            /\ proc_ret' = [error |-> "ZeroDivisionError"]
            /\ UNCHANGED processed_data
       ELSE /\ LET F(row) == FluxDLambda(row, proc_arg.actual.statorResistance)
               IN  processed_data' = WithColumn(processed_data, "fluxLinkageDAxisWb",
                  [i \in Idx(processed_data) |-> F(processed_data[i])])
            /\ pc' = "proc_flux_q"
            /\ UNCHANGED proc_ret
    /\ raw_data' = CallerFrame(raw_data, processed_data')
    /\ UNCHANGED <<data, idwVars, genVars, calcVars, mainVars, motor_config, user_input, motor_params,
                   zero_division, proc_arg>>

\* data_processor.py:86-94
ProcFluxQ ==
    /\ pc = "proc_flux_q"
    /\ IF zero_division = "raise" /\ DividesByZero(processed_data)
       THEN /\ pc' = "proc_raised"
            /\ proc_ret' = [error |-> "ZeroDivisionError"]
            /\ UNCHANGED processed_data
       ELSE /\ LET F(row) == FluxQLambda(row, proc_arg.actual.statorResistance)
               IN  processed_data' = WithColumn(processed_data, "fluxLinkageQAxisWb",
                  [i \in Idx(processed_data) |-> F(processed_data[i])])
            /\ pc' = "proc_torque"
            /\ UNCHANGED proc_ret
    /\ raw_data' = CallerFrame(raw_data, processed_data')
    /\ UNCHANGED <<data, idwVars, genVars, calcVars, mainVars, motor_config, user_input, motor_params,
                   zero_division, proc_arg>>

\* data_processor.py:96-106
ProcTorque ==
    /\ pc = "proc_torque"
    /\ LET F(row) == torque_flux(row.fluxLinkageDAxisWb, row.fluxLinkageQAxisWb,
                                 row.currentQAxisApeak, row.currentDAxisApeak,
                                 proc_arg.actual.polePairs)
       IN  processed_data' = WithColumn(processed_data, "torqueElectromagneticNm",
                  [i \in Idx(processed_data) |-> F(processed_data[i])])
    /\ pc' = "proc_rms"
    /\ raw_data' = CallerFrame(raw_data, processed_data')
    /\ UNCHANGED <<data, idwVars, genVars, calcVars, mainVars, motor_config, user_input, motor_params,
                   zero_division, proc_arg, proc_ret>>

\* data_processor.py:108-120
ProcRms ==
    /\ pc = "proc_rms"
    /\ LET Fid(row) == peak_to_rms(row.currentDAxisApeak)
           Fiq(row) == peak_to_rms(row.currentQAxisApeak)
           Fud(row) == peak_to_rms(row.voltageDAxisVpeak)
           Fuq(row) == peak_to_rms(row.voltageQAxisVpeak)
       IN  processed_data' =
              WithColumn(WithColumn(WithColumn(WithColumn(processed_data,
                  "currentDAxisArms", [i \in Idx(processed_data) |-> Fid(processed_data[i])]),
                  "currentQAxisArms", [i \in Idx(processed_data) |-> Fiq(processed_data[i])]),
                  "voltageDAxisVrms", [i \in Idx(processed_data) |-> Fud(processed_data[i])]),
                  "voltageQAxisVrms", [i \in Idx(processed_data) |-> Fuq(processed_data[i])])
    /\ pc' = "proc_return"
    /\ raw_data' = CallerFrame(raw_data, processed_data')
    /\ UNCHANGED <<data, idwVars, genVars, calcVars, mainVars, motor_config, user_input, motor_params,
                   zero_division, proc_arg, proc_ret>>

\* data_processor.py:122-126
ProcReturn ==
    /\ pc = "proc_return"
    /\ proc_ret' = [frame |-> processed_data]
    /\ pc' = "proc_returned"
    /\ UNCHANGED <<data, idwVars, genVars, calcVars, mainVars, motor_config, user_input, motor_params,
                   raw_data, zero_division, proc_arg, processed_data>>

NextDerive ==
    \/ GetMotorParameters \/ ProcEnter \/ ProcFrequency \/ ProcFluxD \/ ProcFluxQ
    \/ ProcTorque \/ ProcRms \/ ProcReturn

SpecDerive == InitDerive /\ [][NextDerive]_vars

(***************************************************************************)
(* SpecCalc: direct calls of the functions of src/lib/calculations and     *)
(* src/lib/conversions, each on arguments drawn from a small set.          *)
(* src/lib/calculations/inductance.py is not part of the sources at hand   *)
(* (tests/test_calculations.py imports it); its four functions are written *)
(* from the specification's section 4.1, with the argument order of the    *)
(* tests.                                                                  *)
(***************************************************************************)

\* faulty variant: no guard, the division by zero gives a value that is not finite
MutInductanceD(psi_d, i_d, psi_pm) == XDiv(RSub(psi_d, psi_pm), i_d)

\* Ld = (psi_d - psi_pm) / id, zero when id = 0
inductance_d(psi_d, i_d, psi_pm) ==
    IF i_d[1] = 0 THEN <<0, 1>> ELSE XDiv(RSub(psi_d, psi_pm), i_d)

\* Lq = psi_q / iq, zero when iq = 0
inductance_q(psi_q, i_q) ==
    IF i_q[1] = 0 THEN <<0, 1>> ELSE XDiv(psi_q, i_q)

\* faulty variant: the guard looks at the current only, not at the frequency
MutInductanceDVoltage(u_q, i_q, omega_e, rs, psi_pm, i_d) ==
    IF i_d[1] = 0 THEN <<0, 1>>
    ELSE XDiv(RSub(RSub(u_q, RMul(rs, i_q)), RMul(omega_e, psi_pm)), RMul(omega_e, i_d))

\* Ld = (uq - Rs*iq - we*psi_pm) / (we*id), zero when the denominator is zero
inductance_d_voltage(u_q, i_q, omega_e, rs, psi_pm, i_d) ==
    LET denominator == RMul(omega_e, i_d)
    IN  IF denominator[1] = 0 THEN <<0, 1>>
        ELSE XDiv(RSub(RSub(u_q, RMul(rs, i_q)), RMul(omega_e, psi_pm)), denominator)

\* Lq = (Rs*id - ud) / (we*iq), zero when the denominator is zero
inductance_q_voltage(u_d, i_d, omega_e, rs, i_q) ==
    LET denominator == RMul(omega_e, i_q)
    IN  IF denominator[1] = 0 THEN <<0, 1>>
        ELSE XDiv(RSub(RMul(rs, i_d), u_d), denominator)

\* faulty variant: the saliency term with Lq - Ld
MutTorqueIdq(pole_pairs, flux_linkage_wb, d_axis_inductance_h, q_axis_inductance_h, current_d_axis_a, current_q_axis_a) ==
    RMul(RMul(<<3, 2>>, RInt(pole_pairs)),
         RAdd(RMul(flux_linkage_wb, current_q_axis_a),
              RMul(RMul(RSub(q_axis_inductance_h, d_axis_inductance_h), current_d_axis_a),
                   current_q_axis_a)))

\* torque.py:36-65
calculate_torque_torque_idq_nm(pole_pairs, flux_linkage_wb, d_axis_inductance_h, q_axis_inductance_h, current_d_axis_a, current_q_axis_a) ==
    RMul(RMul(<<3, 2>>, RInt(pole_pairs)),
         RAdd(RMul(flux_linkage_wb, current_q_axis_a),
              RMul(RMul(RSub(d_axis_inductance_h, q_axis_inductance_h), current_d_axis_a),
                   current_q_axis_a)))

\* ---- Park transformation (transformations.py) ----
\* An angle theta is represented by t = tan(theta / 2), a rational, so that
\* math.cos and math.sin are exact: cos = (1 - t^2)/(1 + t^2), sin = 2t/(1 + t^2).
Cos(theta) ==
    XDiv(RSub(<<1, 1>>, RMul(theta, theta)), RAdd(<<1, 1>>, RMul(theta, theta)))

Sin(theta) ==
    XDiv(RMul(<<2, 1>>, theta), RAdd(<<1, 1>>, RMul(theta, theta)))

park_transform(alpha, beta, theta) ==
    LET d_component == RAdd(RMul(alpha, Cos(theta)), RMul(beta, Sin(theta)))
        q_component == RAdd(RMul(RNeg(alpha), Sin(theta)), RMul(beta, Cos(theta)))
    IN  <<d_component, q_component>>

\* faulty variant: the inverse rotates the same way as the forward transform
MutInversePark(d_component, q_component, theta) ==
    park_transform(d_component, q_component, theta)

inverse_park_transform(d_component, q_component, theta) ==
    LET alpha == RSub(RMul(d_component, Cos(theta)), RMul(q_component, Sin(theta)))
        beta == RAdd(RMul(d_component, Sin(theta)), RMul(q_component, Cos(theta)))
    IN  <<alpha, beta>>

FluxVals == {<<1, 10>>, <<1, 25>>, <<1, 20>>, <<1, 5>>, <<0, 1>>, <<-1, 10>>}
CurrentVals == {<<10, 1>>, <<20, 1>>, <<0, 1>>, <<-2, 1>>}
VoltageVals == {<<100, 1>>, <<-50, 1>>, <<0, 1>>}
OmegaVals == {<<100, 1>>, <<0, 1>>, <<1, 1>>}
ResistanceVals == {<<1, 10>>, <<0, 1>>}
InductanceVals == {<<1, 200>>, <<1, 50>>, <<0, 1>>}
RpmVals == {-60, -30, 0, 30, 60}
PolePairRange == -1..3

InitCalc ==
    /\ pc = "calc_idle"
    /\ data = <<>> /\ idw_in = None /\ idw_out = None /\ idw_log = <<>>
    /\ GenIdle
    /\ DeriveIdle
    /\ CalcIdle
    /\ MainIdle

CalcDone == pc' = "calc_called" /\ UNCHANGED <<data, idwVars, genVars, deriveVars, mainVars>>

CalcInductanceD ==
    /\ pc = "calc_idle"
    /\ \E psi_d \in FluxVals, i_d \in CurrentVals, psi_pm \in FluxVals :
          /\ calc_in' = [fn |-> "inductance_d", psi_d |-> psi_d, i_d |-> i_d, psi_pm |-> psi_pm]
          /\ calc_out' = inductance_d(psi_d, i_d, psi_pm)
    /\ CalcDone

CalcInductanceQ ==
    /\ pc = "calc_idle"
    /\ \E psi_q \in FluxVals, i_q \in CurrentVals :
          /\ calc_in' = [fn |-> "inductance_q", psi_q |-> psi_q, i_q |-> i_q]
          /\ calc_out' = inductance_q(psi_q, i_q)
    /\ CalcDone

CalcInductanceDVoltage ==
    /\ pc = "calc_idle"
    /\ \E u_q \in VoltageVals, i_q \in CurrentVals, omega_e \in OmegaVals,
          rs \in ResistanceVals, psi_pm \in FluxVals, i_d \in CurrentVals :
          /\ calc_in' = [fn |-> "inductance_d_voltage", u_q |-> u_q, i_q |-> i_q,
                         omega_e |-> omega_e, rs |-> rs, psi_pm |-> psi_pm, i_d |-> i_d]
          /\ calc_out' = inductance_d_voltage(u_q, i_q, omega_e, rs, psi_pm, i_d)
    /\ CalcDone

CalcInductanceQVoltage ==
    /\ pc = "calc_idle"
    /\ \E u_d \in VoltageVals, i_d \in CurrentVals, omega_e \in OmegaVals,
          rs \in ResistanceVals, i_q \in CurrentVals :
          /\ calc_in' = [fn |-> "inductance_q_voltage", u_d |-> u_d, i_d |-> i_d,
                         omega_e |-> omega_e, rs |-> rs, i_q |-> i_q]
          /\ calc_out' = inductance_q_voltage(u_d, i_d, omega_e, rs, i_q)
    /\ CalcDone

\* both torque functions on consistent synthetic data: psi_d and psi_q are
\* generated from Ld, Lq, psi_pm, id, iq
CalcTorque ==
    /\ pc = "calc_idle"
    /\ \E pole_pairs \in PolePairRange, psi_pm \in FluxVals, ld \in InductanceVals,
          lq \in InductanceVals, i_d \in CurrentVals, i_q \in CurrentVals :
          LET psi_d == RAdd(psi_pm, RMul(ld, i_d))
              psi_q == RMul(lq, i_q)
          IN  /\ calc_in' = [fn |-> "torque", pole_pairs |-> pole_pairs, psi_pm |-> psi_pm,
                             ld |-> ld, lq |-> lq, i_d |-> i_d, i_q |-> i_q]
              /\ calc_out' =
                    [flux |-> calculate_torque_flux_nm(psi_d, psi_q, i_q, i_d, pole_pairs),
                     idq |-> calculate_torque_torque_idq_nm(pole_pairs, psi_pm, ld, lq, i_d, i_q)]
    /\ CalcDone

CalcFrequency ==
    /\ pc = "calc_idle"
    /\ \E rpm \in RpmVals, pole_pairs \in PolePairRange :
          /\ calc_in' = [fn |-> "electrical_frequency", rpm |-> rpm, pole_pairs |-> pole_pairs]
          /\ calc_out' = electrical_frequency(rpm, pole_pairs)
    /\ CalcDone

KeVals == {<<-3, 1>>, <<0, 1>>, <<3, 1>>, <<6, 1>>}

CalcKeToPsi ==
    /\ pc = "calc_idle"
    /\ \E ke \in KeVals, pole_pairs \in PolePairRange :
          /\ calc_in' = [fn |-> "ke_to_psi", ke |-> ke, pole_pairs |-> pole_pairs]
          /\ calc_out' = ke_to_psi(ke, pole_pairs)
    /\ CalcDone

CalcPsiToKe ==
    /\ pc = "calc_idle"
    /\ \E psi_pm \in KeVals, pole_pairs \in PolePairRange :
          /\ calc_in' = [fn |-> "psi_to_ke", psi_pm |-> psi_pm, pole_pairs |-> pole_pairs]
          /\ calc_out' = psi_to_ke(psi_pm, pole_pairs)
    /\ CalcDone

CalcGetMotorParameters ==
    /\ pc = "calc_idle"
    /\ \E cfg \in MotorConfigs, inp \in UserInputs :
          /\ calc_in' = [fn |-> "get_motor_parameters", motor_config |-> cfg, typed |-> inp]
          /\ calc_out' = get_motor_parameters(cfg, inp)
    /\ CalcDone

\* angles 0, pi/2, -pi/2, 2 atan(1/2), 2 atan(2), -2 atan(1/3), 2 atan(3)
ThetaVals == {<<0, 1>>, <<1, 1>>, <<-1, 1>>, <<1, 2>>, <<2, 1>>, <<-1, 3>>, <<3, 1>>}
ComponentVals == {<<0, 1>>, <<1, 1>>, <<-2, 1>>, <<5, 1>>, <<7, 2>>, <<-1, 10>>}

\* park_transform followed by inverse_park_transform at the same angle
CalcParkThenInverse ==
    /\ pc = "calc_idle"
    /\ \E alpha \in ComponentVals, beta \in ComponentVals, theta \in ThetaVals :
          LET dq == park_transform(alpha, beta, theta)
          IN  /\ calc_in' = [fn |-> "park_then_inverse", alpha |-> alpha, beta |-> beta,
                             theta |-> theta]
              /\ calc_out' = [dq |-> dq, back |-> inverse_park_transform(dq[1], dq[2], theta)]
    /\ CalcDone

\* inverse_park_transform followed by park_transform at the same angle
CalcInverseThenPark ==
    /\ pc = "calc_idle"
    /\ \E d \in ComponentVals, q \in ComponentVals, theta \in ThetaVals :
          LET ab == inverse_park_transform(d, q, theta)
          IN  /\ calc_in' = [fn |-> "inverse_then_park", d |-> d, q |-> q, theta |-> theta]
              /\ calc_out' = [ab |-> ab, back |-> park_transform(ab[1], ab[2], theta)]
    /\ CalcDone

\* the flux linkages derived from the voltage equations, handed to the
\* flux-based inductance functions, next to the voltage-based ones on the
\* same sample (integer measurements, non-zero electrical frequency)
CalcInductanceBothWays ==
    /\ pc = "calc_idle"
    /\ \E ud \in {-50, 0, 100}, uq \in {-50, 0, 100}, i_d \in {-2, 0, 10, 20},
          i_q \in {-2, 0, 10, 20}, we \in {1, 100}, rs \in ResistanceVals,
          psi_pm \in {<<1, 20>>, <<0, 1>>} :
          LET psi_d == flux_linkage_d_voltage(uq, i_q, we, rs)
              psi_q == flux_linkage_q_voltage(ud, i_d, we, rs)
          IN  /\ calc_in' = [fn |-> "inductance_both_ways", ud |-> ud, uq |-> uq,
                             i_d |-> i_d, i_q |-> i_q, we |-> we, rs |-> rs,
                             psi_pm |-> psi_pm]
              /\ calc_out' =
                    [psi_d |-> psi_d, psi_q |-> psi_q,
                     ld_flux |-> inductance_d(psi_d, RInt(i_d), psi_pm),
                     ld_voltage |-> inductance_d_voltage(RInt(uq), RInt(i_q), RInt(we), rs,
                                                         psi_pm, RInt(i_d)),
                     lq_flux |-> inductance_q(psi_q, RInt(i_q)),
                     lq_voltage |-> inductance_q_voltage(RInt(ud), RInt(i_d), RInt(we), rs,
                                                         RInt(i_q))]
    /\ CalcDone

\* the flux linkages computed from inductances, handed back to the flux-based
\* inductance functions
CalcFluxFromInductance ==
    /\ pc = "calc_idle"
    /\ \E i_d \in CurrentVals, i_q \in CurrentVals, ld \in InductanceVals,
          lq \in InductanceVals, psi_pm \in FluxVals :
          LET psi_d == flux_linkage_d_axis(i_d, ld)
              psi_q == flux_linkage_q_axis(i_q, lq)
          IN  /\ calc_in' = [fn |-> "flux_from_inductance", i_d |-> i_d, i_q |-> i_q,
                             ld |-> ld, lq |-> lq, psi_pm |-> psi_pm]
              /\ calc_out' = [psi_d |-> psi_d, psi_q |-> psi_q,
                              ld_back |-> inductance_d(psi_d, i_d, psi_pm),
                              lq_back |-> inductance_q(psi_q, i_q)]
    /\ CalcDone

NextCalc ==
    \/ CalcInductanceD \/ CalcInductanceQ \/ CalcInductanceDVoltage
    \/ CalcInductanceQVoltage \/ CalcTorque \/ CalcFrequency
    \/ CalcKeToPsi \/ CalcPsiToKe \/ CalcGetMotorParameters
    \/ CalcParkThenInverse \/ CalcInverseThenPark
    \/ CalcInductanceBothWays \/ CalcFluxFromInductance

SpecCalc == InitCalc /\ [][NextCalc]_vars

\* ---------------------------------------------------------------------
\* load_test_data (data_loader.py) and the main workflow (tableGen.py)
\* ---------------------------------------------------------------------

\* the fields of selected_cols (lines 60-68) and of rename_mapping (lines
\* 71-79), each in the order the code lists them
SelectedFields ==
    <<"time", "torque_measured", "speed_rpm", "uq_vpk", "ud_vpk", "iq_apk", "id_apk">>

RenameFields ==
    <<"time", "speed_rpm", "torque_measured", "uq_vpk", "ud_vpk", "iq_apk", "id_apk">>

Range(seq) == {seq[i] : i \in DOMAIN seq}

\* data_config["data"]: the CSV headers and the standard names
ColumnNames ==
    [time |-> "Time", torque_measured |-> "Torque", speed_rpm |-> "Speed",
     uq_vpk |-> "Uq", ud_vpk |-> "Ud", iq_apk |-> "Iq", id_apk |-> "Id"]

StandardInput ==
    [time |-> "timeS", torque_measured |-> "torqueMeasuredNm", speed_rpm |-> "speedRpm",
     uq_vpk |-> "voltageQAxisVpeak", ud_vpk |-> "voltageDAxisVpeak",
     iq_apk |-> "currentQAxisApeak", id_apk |-> "currentDAxisApeak"]

StandardComputed == <<"electricalFrequencyRads", "speedRpm">>

DataConfigs ==
    {[columnNames |-> ColumnNames,
      standardNames |-> [input |-> StandardInput, computed |-> StandardComputed]],
     [columnNames |-> ColumnNames,
      standardNames |-> [input |-> StandardInput]]}

\* what load_config can return: a configuration with or without its "data" part
Configs ==
    {[data |-> d, motor |-> m.motor] : d \in DataConfigs, m \in MotorConfigs}
        \cup {[motor |-> m.motor] : m \in MotorConfigs}

\* what pd.read_csv finds at the path: nothing, something it cannot parse,
\* or a table (its column headers in order, and its number of rows)
CsvHeaders == <<"Time", "Torque", "Speed", "Uq", "Ud", "Iq", "Id">>

MaxCsvRows == 1

CsvFiles ==
    {[kind |-> "missing"], [kind |-> "unreadable"]}
        \cup {[kind |-> "table", columns |-> c, rows |-> n] :
                 c \in {CsvHeaders,
                        <<"Temp", "Id", "Iq", "Ud", "Uq", "Speed", "Torque", "Time">>,
                        <<"timeS", "torqueMeasuredNm", "speedRpm", "voltageQAxisVpeak",
                          "voltageDAxisVpeak", "currentQAxisApeak", "currentDAxisApeak">>,
                        <<>>}
                     \cup {SelectSeq(CsvHeaders, LAMBDA c : c # h) : h \in Range(CsvHeaders)},
                 n \in 0..MaxCsvRows}

\* DataFrame.rename(columns=rename_mapping): a dict keeps the last value
\* given for a key
Rename(columns, col, std_names) ==
    [i \in DOMAIN columns |->
        LET hits == {j \in DOMAIN RenameFields : col[RenameFields[j]] = columns[i]}
        IN  IF hits = {} THEN columns[i]
            ELSE std_names.input[RenameFields[CHOOSE j \in hits : \A k \in hits : k <= j]]]

\* lines 86-88: each computed column the table lacks is added, filled with NaN
RECURSIVE InitComputed(_, _)
InitComputed(columns, computed) ==
    IF computed = <<>> THEN columns
    ELSE InitComputed(IF Head(computed) \in Range(columns) THEN columns
                      ELSE Append(columns, Head(computed)),
                      Tail(computed))

\* faulty variant: the KeyError handler only prints and falls through to the
\* final return, with the table as it stands and the flag still True
MutKeyErrorReturn(data_table) == [data_table |-> data_table, success_flag |-> TRUE]

\* lines 92-96: the KeyError handler drops the table and clears the flag
KeyErrorReturn(data_table) == [data_table |-> NoRec, success_flag |-> FALSE]

load_test_data(data_config, file) ==
    IF file.kind = "missing" THEN [data_table |-> NoRec, success_flag |-> FALSE]
    ELSE IF file.kind = "unreadable" THEN [data_table |-> NoRec, success_flag |-> FALSE]
    ELSE IF "data" \notin DOMAIN data_config THEN [error |-> "KeyError"]
    ELSE LET col == data_config.data.columnNames
             std_names == data_config.data.standardNames
             read == [columns |-> file.columns, rows |-> file.rows]
             selected_cols == [i \in DOMAIN SelectedFields |-> col[SelectedFields[i]]]
             renamed == [columns |-> Rename(selected_cols, col, std_names),
                         rows |-> file.rows]
         IN  IF \E i \in DOMAIN selected_cols : selected_cols[i] \notin Range(read.columns)
             THEN KeyErrorReturn(read)
             ELSE IF "computed" \notin DOMAIN std_names
             THEN KeyErrorReturn(renamed)
             ELSE [data_table |-> [columns |-> InitComputed(renamed.columns,
                                                            std_names.computed),
                                   rows |-> file.rows],
                   success_flag |-> TRUE]

\* faulty variant: the success flag is not looked at
MutLoadFailed(loaded) == FALSE

\* line 42: if not success_flag
LoadFailed(loaded) == ~loaded.success_flag

InitMain ==
    /\ pc = "main_entry"
    /\ data = <<>> /\ idw_in = None /\ idw_out = None /\ idw_log = <<>>
    /\ GenIdle
    /\ DeriveIdle
    /\ CalcIdle
    /\ csv_file \in CsvFiles
    /\ config = NoRec /\ load_ret = NoRec
    /\ started = <<>> /\ outcomes = <<>> /\ printed = <<>> /\ exit_status = <<>>

\* lines 73-75: the handler prints the error to stderr and exits with status 1
MainFail(step, how, announcement) ==
    /\ started' = Append(started, step)
    /\ outcomes' = Append(outcomes, how)
    /\ printed' = Append(printed, announcement)
    /\ exit_status' = <<1>>
    /\ pc' = "main_exited"

\* a step returned: main prints its closing line and goes on to the next step
MainGoOn(step, announcement, closing, next) ==
    /\ started' = Append(started, step)
    /\ outcomes' = Append(outcomes, "returned")
    /\ printed' = printed \o <<announcement, closing>>
    /\ exit_status' = exit_status
    /\ pc' = next

\* lines 34-36
MainLoadConfig ==
    /\ pc = "main_entry"
    /\ \/ \E c \in Configs :
             /\ config' = c
             /\ MainGoOn("load_config", "Step 0: Loading configuration...",
                         "Configuration loaded successfully", "main_load")
       \/ /\ config' = config
          /\ MainFail("load_config", "raised", "Step 0: Loading configuration...")
    /\ UNCHANGED <<data, idwVars, genVars, deriveVars, calcVars, csv_file, load_ret>>

\* lines 39-45
MainLoadData ==
    /\ pc = "main_load"
    /\ load_ret' = load_test_data(config, csv_file)
    /\ IF "error" \in DOMAIN load_ret'
       THEN MainFail("load_data", "raised", "Step 1: Loading and validating data...")
       ELSE IF LoadFailed(load_ret')
       THEN MainFail("load_data", "not loaded", "Step 1: Loading and validating data...")
       ELSE MainGoOn("load_data", "Step 1: Loading and validating data...", "",
                     "main_motor")
    /\ UNCHANGED <<data, idwVars, genVars, deriveVars, calcVars, csv_file, config>>

\* lines 48-50
MainGetMotorParameters ==
    /\ pc = "main_motor"
    /\ \E inp \in UserInputs :
          /\ motor_params' = get_motor_parameters(config, inp)
          /\ IF "error" \in DOMAIN motor_params'
             THEN MainFail("get_motor_parameters", "raised",
                           "Step 2: Getting motor parameters...")
             ELSE MainGoOn("get_motor_parameters", "Step 2: Getting motor parameters...",
                           "", "main_process")
    /\ UNCHANGED <<data, idwVars, genVars, calcVars, csv_file, config, load_ret,
                   motor_config, user_input, raw_data, zero_division, proc_arg,
                   processed_data, proc_ret>>

\* a step whose callee is taken as a whole: it returns or it raises
MainCall(step, announcement, next) ==
    \E outcome \in {"returned", "raised"} :
        IF outcome = "raised"
        THEN MainFail(step, "raised", announcement)
        ELSE MainGoOn(step, announcement, "", next)

\* lines 53-55
MainProcessData ==
    /\ pc = "main_process"
    /\ MainCall("process_data", "Step 3: Processing data...", "main_table")
    /\ UNCHANGED <<data, idwVars, genVars, deriveVars, calcVars, csv_file, config, load_ret>>

\* lines 58-60
MainGetTableParameters ==
    /\ pc = "main_table"
    /\ MainCall("get_table_parameters", "Step 4a: Getting table parameters...",
                "main_generate")
    /\ UNCHANGED <<data, idwVars, genVars, deriveVars, calcVars, csv_file, config, load_ret>>

\* lines 63-65
MainGenerateFluxMaps ==
    /\ pc = "main_generate"
    /\ MainCall("generate_flux_maps", "Step 4b: Generating flux maps...", "main_plot")
    /\ UNCHANGED <<data, idwVars, genVars, deriveVars, calcVars, csv_file, config, load_ret>>

\* lines 68-71: after plot_results returns main prints the closing message and
\* returns, and the interpreter exits with status 0
MainPlotResults ==
    /\ pc = "main_plot"
    /\ \/ MainFail("plot_results", "raised", "Step 5: Plotting results...")
       \/ /\ started' = Append(started, "plot_results")
          /\ outcomes' = Append(outcomes, "returned")
          /\ printed' = printed \o <<"Step 5: Plotting results...",
                                     "Analysis completed successfully!">>
          /\ exit_status' = <<0>>
          /\ pc' = "main_exited"
    /\ UNCHANGED <<data, idwVars, genVars, deriveVars, calcVars, csv_file, config, load_ret>>

NextMain ==
    \/ MainLoadConfig \/ MainLoadData \/ MainGetMotorParameters \/ MainProcessData
    \/ MainGetTableParameters \/ MainGenerateFluxMaps \/ MainPlotResults

SpecMain == InitMain /\ [][NextMain]_vars

(***************************************************************************)
(* Claims about the directly called functions (SpecCalc), stated by        *)
(* cross-multiplication on the arguments and the result.                   *)
(***************************************************************************)
CalcCalled(fn) == pc = "calc_called" /\ calc_in.fn = fn
Zero == <<0, 1>>

\* C12: inductance_d returns (psi_d - psi_pm) / id for id # 0 and exactly 0
\* for id = 0; inductance_q returns psi_q / iq for iq # 0 and exactly 0 for
\* iq = 0; the values of the tests are (0.1, 10, 0.05) -> 0.005 and
\* (0.2, 10) -> 0.02.
C12_InductanceFlux ==
    /\ CalcCalled("inductance_d") =>
          /\ IF calc_in.i_d = Zero THEN calc_out = Zero
             ELSE /\ IsFinite(calc_out)
                  /\ RMul(calc_out, calc_in.i_d) = RSub(calc_in.psi_d, calc_in.psi_pm)
          /\ (calc_in.psi_d = <<1, 10>> /\ calc_in.i_d = <<10, 1>> /\ calc_in.psi_pm = <<1, 20>>)
                => calc_out = <<1, 200>>
    /\ CalcCalled("inductance_q") =>
          /\ IF calc_in.i_q = Zero THEN calc_out = Zero
             ELSE /\ IsFinite(calc_out)
                  /\ RMul(calc_out, calc_in.i_q) = calc_in.psi_q
          /\ (calc_in.psi_q = <<1, 5>> /\ calc_in.i_q = <<10, 1>>) => calc_out = <<1, 50>>

\* inductance_d at id = 0 with psi_d # psi_pm, where the quotient is undefined
C12_Witness ==
    /\ CalcCalled("inductance_d")
    /\ calc_in.i_d = Zero
    /\ calc_in.psi_d # calc_in.psi_pm
    /\ calc_out = Zero

\* C13: inductance_d_voltage returns (uq - Rs*iq - we*psi_pm) / (we*id) and
\* inductance_q_voltage returns (Rs*id - ud) / (we*iq) when the denominator
\* is not zero, and each returns exactly 0 when we = 0 or the current of the
\* denominator is 0.
C13_InductanceVoltage ==
    /\ CalcCalled("inductance_d_voltage") =>
          IF calc_in.omega_e = Zero \/ calc_in.i_d = Zero THEN calc_out = Zero
          ELSE /\ IsFinite(calc_out)
               /\ RMul(calc_out, RMul(calc_in.omega_e, calc_in.i_d)) =
                     RSub(RSub(calc_in.u_q, RMul(calc_in.rs, calc_in.i_q)),
                          RMul(calc_in.omega_e, calc_in.psi_pm))
    /\ CalcCalled("inductance_q_voltage") =>
          IF calc_in.omega_e = Zero \/ calc_in.i_q = Zero THEN calc_out = Zero
          ELSE /\ IsFinite(calc_out)
               /\ RMul(calc_out, RMul(calc_in.omega_e, calc_in.i_q)) =
                     RSub(RMul(calc_in.rs, calc_in.i_d), calc_in.u_d)

\* the call of the test: we = 0 with a non-zero current and numerator
C13_Witness ==
    /\ CalcCalled("inductance_d_voltage")
    /\ calc_in.omega_e = Zero
    /\ calc_in.i_d = <<20, 1>> /\ calc_in.u_q = <<100, 1>> /\ calc_in.i_q = <<10, 1>>
    /\ calc_out = Zero

\* C14: with psi_d = psi_pm + Ld*id and psi_q = Lq*iq, the flux-based torque
\* and the expanded-idq torque are equal (in exact arithmetic).
C14_TorqueAgree ==
    CalcCalled("torque") => calc_out.flux = calc_out.idq

\* a salient machine with both currents and the magnet flux non-zero
C14_Witness ==
    /\ CalcCalled("torque")
    /\ calc_in.pole_pairs > 1
    /\ calc_in.ld # calc_in.lq /\ calc_in.ld # Zero /\ calc_in.lq # Zero
    /\ calc_in.i_d[1] < 0 /\ calc_in.i_q[1] > 0
    /\ calc_in.psi_pm[1] > 0
    /\ calc_out.idq # Zero

ChosenPolePairs ==
    IF calc_in.typed.pole_pairs.kind = "number" THEN calc_in.typed.pole_pairs.val
    ELSE calc_in.motor_config.motor.pole_pairs

\* C22: for every pole_pairs <= 0, ke_to_psi and psi_to_ke return 0 and raise
\* no error, and get_motor_parameters (given answers that parse) returns a
\* parameter set with that pole-pair count and psi_wb = 0.
C22_KePsiZero ==
    /\ (CalcCalled("ke_to_psi") /\ calc_in.pole_pairs <= 0) => calc_out = Zero
    /\ (CalcCalled("psi_to_ke") /\ calc_in.pole_pairs <= 0) => calc_out = Zero
    /\ ( /\ CalcCalled("get_motor_parameters")
         /\ \A k \in DOMAIN calc_in.typed : calc_in.typed[k].kind # "garbage"
         /\ ChosenPolePairs <= 0 ) =>
            /\ "actual" \in DOMAIN calc_out
            /\ calc_out.actual.pole_pairs = ChosenPolePairs
            /\ calc_out.actual.psi_wb = Zero

\* 0 typed for the pole pairs and a Ke that is not 0
C22_Witness ==
    /\ CalcCalled("get_motor_parameters")
    /\ calc_in.typed.pole_pairs = Typed(0)
    /\ calc_in.typed.ke_v_krpm = Typed(<<6, 1>>)
    /\ calc_in.typed.rs_ohm = Blank
    /\ "actual" \in DOMAIN calc_out
    /\ calc_out.actual.ke_v_krpm = <<6, 1>>
    /\ calc_out.actual.psi_wb = Zero

\* C23: the Park transformation and its inverse at the same angle undo each
\* other in both orders: inverse_park_transform(park_transform(alpha, beta,
\* theta), theta) gives back (alpha, beta), and park_transform(
\* inverse_park_transform(d, q, theta), theta) gives back (d, q).
C23_ParkRoundTrip ==
    /\ CalcCalled("park_then_inverse") =>
          calc_out.back = <<calc_in.alpha, calc_in.beta>>
    /\ CalcCalled("inverse_then_park") =>
          calc_out.back = <<calc_in.d, calc_in.q>>

\* the round trip is taken at an angle with cosine 3/5 and sine 4/5, on a
\* vector that the transformation really moves
C23_Witness ==
    /\ CalcCalled("park_then_inverse")
    /\ calc_in.theta = <<1, 2>>
    /\ calc_in.alpha = <<5, 1>> /\ calc_in.beta = <<0, 1>>
    /\ calc_out.dq = << <<3, 1>>, <<-4, 1>> >>
    /\ calc_out.back = << <<5, 1>>, <<0, 1>> >>

(***************************************************************************)
(* Claims about parameter acquisition and the derivation (SpecDerive).     *)
(***************************************************************************)
MotorReturned == "actual" \in DOMAIN motor_params
ProcEnded == pc \in {"proc_returned", "proc_raised"}
HasColumn(frame, name) == \E i \in Idx(frame) : name \in DOMAIN frame[i]
DerivedColumns ==
    {"electricalFrequencyRads", "fluxLinkageDAxisWb", "fluxLinkageQAxisWb",
     "torqueElectromagneticNm"}

\* C9 (as claimed): a pole-pair count of 0 or less is rejected before any
\* computation begins: get_motor_parameters never returns a parameter set
\* that contains one, and process_data never computes a derived column
\* with one.
C9_PolePairs ==
    /\ MotorReturned => motor_params.actual.pole_pairs > 0
    /\ (\E name \in DerivedColumns : HasColumn(processed_data, name))
          => proc_arg.actual.polePairs > 0

ZeroFrequencyRows == {i \in Idx(raw_data) : raw_data[i].speedRpm = 0}

\* C10 (as claimed): when a sample of the batch has electrical frequency 0
\* (speed 0 rpm) and the pole-pair count is positive, process_data does not
\* abort: it returns, no returned row has electrical frequency 0, and every
\* other row of the batch is returned with finite flux linkages.
C10_ZeroFrequency ==
    (/\ ProcEnded
     /\ "polePairs" \in DOMAIN proc_arg.actual
     /\ proc_arg.actual.polePairs > 0
     /\ ZeroFrequencyRows # {})
        => /\ pc = "proc_returned"
           /\ Len(proc_ret.frame) = Len(raw_data) - Cardinality(ZeroFrequencyRows)
           /\ \A i \in Idx(proc_ret.frame) :
                 /\ proc_ret.frame[i].electricalFrequencyRads # 0
                 /\ IsFinite(proc_ret.frame[i].fluxLinkageDAxisWb)
                 /\ IsFinite(proc_ret.frame[i].fluxLinkageQAxisWb)

\* C15: in process_data, for every row with electrical frequency we # 0 (we
\* being |speedRpm| * polePairs of the same row), the derived d-axis flux is
\* -((Rs*iq) - uq) / we from the row's q-axis voltage and current, and the
\* derived q-axis flux is ((Rs*id) - ud) / we from the row's d-axis voltage
\* and current.
C15_FluxWiring ==
    \A i \in Idx(processed_data) :
        LET row == processed_data[i]
            rs == proc_arg.actual.statorResistance
            we == Abs(row.speedRpm) * proc_arg.actual.polePairs
        IN  /\ "electricalFrequencyRads" \in DOMAIN row => row.electricalFrequencyRads = we
            /\ ("fluxLinkageDAxisWb" \in DOMAIN row /\ we # 0) =>
                  /\ IsFinite(row.fluxLinkageDAxisWb)
                  /\ RMul(row.fluxLinkageDAxisWb, RInt(we)) =
                        RNeg(RSub(RMul(rs, RInt(row.currentQAxisApeak)),
                                  RInt(row.voltageQAxisVpeak)))
            /\ ("fluxLinkageQAxisWb" \in DOMAIN row /\ we # 0) =>
                  /\ IsFinite(row.fluxLinkageQAxisWb)
                  /\ RMul(row.fluxLinkageQAxisWb, RInt(we)) =
                        RSub(RMul(rs, RInt(row.currentDAxisApeak)),
                             RInt(row.voltageDAxisVpeak))

\* process_data returned a batch of two rows of different speeds, with a
\* stator resistance that is not 0 and the two fluxes of a row different
C15_Witness ==
    /\ pc = "proc_returned"
    /\ Len(proc_ret.frame) = 2
    /\ proc_arg.actual.statorResistance # <<0, 1>>
    /\ proc_ret.frame[1].speedRpm < 0 /\ proc_ret.frame[2].speedRpm > 0
    /\ \A i \in 1..2 :
          /\ IsFinite(proc_ret.frame[i].fluxLinkageDAxisWb)
          /\ proc_ret.frame[i].fluxLinkageDAxisWb # proc_ret.frame[i].fluxLinkageQAxisWb

RawColumns ==
    {"speedRpm", "voltageDAxisVpeak", "voltageQAxisVpeak", "currentDAxisApeak",
     "currentQAxisApeak"}

\* v is peak / sqrt(2)
IsRmsOf(v, peak) ==
    /\ v.s = (IF peak > 0 THEN 1 ELSE IF peak < 0 THEN -1 ELSE 0)
    /\ v.q[1] * 2 = peak * peak * v.q[2]

\* C21: process_data leaves the caller's raw_data as it was (no column is
\* added to it); the table it returns has the same rows in the same order
\* with the original columns unmodified; and the derived values of a row are
\* given by that row's own raw fields, polePairs and statorResistance: the
\* frequency, the two fluxes, the torque from them, and the four RMS values
\* peak / sqrt(2).  Rows with equal raw fields get equal derived values.
C21_Pure ==
    /\ \A i \in Idx(raw_data) : DOMAIN raw_data[i] = RawColumns
    /\ pc = "proc_returned" =>
          /\ Len(proc_ret.frame) = Len(raw_data)
          /\ \A i, j \in Idx(raw_data) :
                raw_data[i] = raw_data[j] => proc_ret.frame[i] = proc_ret.frame[j]
          /\ \A i \in Idx(raw_data) :
                LET row == proc_ret.frame[i]
                    raw == raw_data[i]
                    pp == proc_arg.actual.polePairs
                    rs == proc_arg.actual.statorResistance
                    we == Abs(raw.speedRpm) * pp
                IN  /\ \A col \in RawColumns : row[col] = raw[col]
                    /\ row.electricalFrequencyRads = we
                    /\ IF we = 0
                       THEN ~IsFinite(row.fluxLinkageDAxisWb) /\ ~IsFinite(row.fluxLinkageQAxisWb)
                       ELSE /\ RMul(row.fluxLinkageDAxisWb, RInt(we)) =
                                  RSub(RInt(raw.voltageQAxisVpeak),
                                       RMul(rs, RInt(raw.currentQAxisApeak)))
                            /\ RMul(row.fluxLinkageQAxisWb, RInt(we)) =
                                  RSub(RMul(rs, RInt(raw.currentDAxisApeak)),
                                       RInt(raw.voltageDAxisVpeak))
                            /\ RMul(row.torqueElectromagneticNm, <<2, 1>>) =
                                  RMul(RInt(3 * pp),
                                       RSub(RMul(row.fluxLinkageDAxisWb, RInt(raw.currentQAxisApeak)),
                                            RMul(row.fluxLinkageQAxisWb, RInt(raw.currentDAxisApeak))))
                    /\ IsRmsOf(row.currentDAxisArms, raw.currentDAxisApeak)
                    /\ IsRmsOf(row.currentQAxisArms, raw.currentQAxisApeak)
                    /\ IsRmsOf(row.voltageDAxisVrms, raw.voltageDAxisVpeak)
                    /\ IsRmsOf(row.voltageQAxisVrms, raw.voltageQAxisVpeak)

\* process_data returned a batch of two different rows with finite fluxes
C21_Witness ==
    /\ pc = "proc_returned"
    /\ Len(raw_data) = 2
    /\ raw_data[1] # raw_data[2]
    /\ \A i \in 1..2 :
          /\ IsFinite(proc_ret.frame[i].fluxLinkageDAxisWb)
          /\ proc_ret.frame[i].torqueElectromagneticNm # <<0, 1>>

\* ---------------------------------------------------------------------
\* Claims about loading and the main workflow (SpecMain)
\* ---------------------------------------------------------------------

WorkflowOrder ==
    <<"load_config", "load_data", "get_motor_parameters", "process_data",
      "get_table_parameters", "generate_flux_maps", "plot_results">>

LoadReturned == load_ret # NoRec /\ "success_flag" \in DOMAIN load_ret

\* C24: main starts its steps strictly in the order load configuration, load
\* data, get motor parameters, process data, get table parameters, generate
\* flux maps, plot. A step that raises, or a data load that returns success =
\* False, is the last step started and the process has exited with status 1.
\* 'Analysis completed successfully!' is printed only when all seven steps
\* have returned without error.
C24_Workflow ==
    /\ Len(started) <= Len(WorkflowOrder)
    /\ started = SubSeq(WorkflowOrder, 1, Len(started))
    /\ Len(outcomes) = Len(started)
    /\ \A i \in DOMAIN started :
          outcomes[i] # "returned" =>
              /\ i = Len(started)
              /\ exit_status = <<1>>
    /\ (LoadReturned /\ ~load_ret.success_flag) =>
          /\ started = SubSeq(WorkflowOrder, 1, 2)
          /\ exit_status = <<1>>
    /\ "Analysis completed successfully!" \in Range(printed) =>
          /\ started = WorkflowOrder
          /\ \A i \in DOMAIN started : outcomes[i] = "returned"
          /\ printed[Len(printed)] = "Analysis completed successfully!"

\* process_data raises after three steps returned: nothing later is started,
\* the closing message is not printed and the exit status is 1
C24_Witness ==
    /\ started = SubSeq(WorkflowOrder, 1, 4)
    /\ outcomes = <<"returned", "returned", "returned", "raised">>
    /\ exit_status = <<1>>
    /\ printed[Len(printed)] = "Step 3: Processing data..."

IdwActed == pc = "called" \/ (pc \in {"loop", "returned"} /\ idw_calls > 0)

\* the samples at minimum distance from the query
NearestSet == {k \in Idx(data) : \A j \in Idx(data) : ~RLt(D2(j), D2(k))}

\* v is finite and lies between the least and the greatest value of column
\* col over the samples S
Within(v, S, col) ==
    /\ IsFinite(v)
    /\ \E i \in S : ~RLt(v, RInt(data[i][col]))
    /\ \E i \in S : ~RLt(RInt(data[i][col]), v)

\* C26: each component returned by interpolate_idw lies between the minimum
\* and the maximum of that component over the samples used: the samples
\* strictly within max_dist when there are any, otherwise the single nearest
\* sample. Hence every cell of a returned table lies within the range of the
\* sample flux values.
C26_Bounded ==
    /\ IdwActed =>
          /\ NearSet # {} =>
                /\ Within(idw_out[1], NearSet, "psi_d")
                /\ Within(idw_out[2], NearSet, "psi_q")
          /\ NearSet = {} =>
                \E k \in NearestSet :
                    /\ Within(idw_out[1], {k}, "psi_d")
                    /\ Within(idw_out[2], {k}, "psi_q")
    /\ Returned =>
          \A r \in GridRange, c \in GridRange :
              /\ Within(ret.psi_d[r][c], Idx(data), "psi_d")
              /\ Within(ret.psi_q[r][c], Idx(data), "psi_q")

\* a node of the table loop averages a proper part of the samples to a value
\* strictly inside their range, although a sample left out lies above it
C26_Witness ==
    /\ pc = "loop" /\ idw_calls > 0
    /\ NearSet # {} /\ NearSet # Idx(data)
    /\ \E i, j \in NearSet :
          RLt(RInt(data[i].psi_d), idw_out[1]) /\ RLt(idw_out[1], RInt(data[j].psi_d))
    /\ \E k \in Idx(data) \ NearSet :
          \A j \in NearSet : data[j].psi_d < data[k].psi_d

\* C27: in the fallback, among the samples at the same minimum distance the
\* one with the lowest index supplies the result. When all sample coordinates
\* coincide no node has a sample strictly within max_dist, and every cell of
\* the returned tables holds the first sample's values.
C27_TieBreak ==
    /\ (IdwActed /\ NearSet = {}) =>
          \E k \in NearestSet :
              /\ \A j \in NearestSet : k <= j
              /\ idw_out = ValueAt(k)
    /\ (IdwActed /\ pc \in {"loop", "returned"} /\ Coincident) => NearSet = {}
    /\ (Returned /\ Coincident) =>
          \A r \in GridRange, c \in GridRange :
              <<ret.psi_d[r][c], ret.psi_q[r][c]>> = ValueAt(1)

\* a node equidistant from two samples at different places, with different
\* values, none of them strictly within max_dist
C27_Witness ==
    /\ pc = "loop" /\ idw_calls > 0
    /\ NearSet = {}
    /\ \E i, j \in NearestSet :
          /\ i < j
          /\ data[i].id # data[j].id
          /\ ValueAt(i) # ValueAt(j)
          /\ idw_out = ValueAt(i)

\* ---------------------------------------------------------------------
\* Further claims about the derivation (SpecDerive)
\* ---------------------------------------------------------------------

\* C28: for every processed row with electrical frequency we # 0 the derived
\* torque satisfies Te * we = 1.5 * pole_pairs * (ud*id + uq*iq -
\* Rs*(id^2 + iq^2)).
C28_AirGapPower ==
    \A i \in Idx(processed_data) :
        LET row == processed_data[i]
            rs == proc_arg.actual.statorResistance
            pp == proc_arg.actual.polePairs
            we == Abs(row.speedRpm) * pp
            ud == row.voltageDAxisVpeak
            uq == row.voltageQAxisVpeak
            i_d == row.currentDAxisApeak
            i_q == row.currentQAxisApeak
        IN  ("torqueElectromagneticNm" \in DOMAIN row /\ we # 0) =>
                /\ IsFinite(row.torqueElectromagneticNm)
                /\ RMul(row.torqueElectromagneticNm, RInt(we)) =
                      RMul(<<3 * pp, 2>>,
                           RSub(RInt(ud * i_d + uq * i_q),
                                RMul(rs, RInt(i_d * i_d + i_q * i_q))))

\* a returned row with resistance, both currents and a non-zero torque
C28_Witness ==
    /\ pc = "proc_returned"
    /\ proc_arg.actual.statorResistance # <<0, 1>>
    /\ \E i \in Idx(proc_ret.frame) :
          LET row == proc_ret.frame[i]
          IN  /\ row.speedRpm # 0
              /\ row.currentDAxisApeak # 0 /\ row.currentQAxisApeak # 0
              /\ IsFinite(row.torqueElectromagneticNm)
              /\ row.torqueElectromagneticNm # <<0, 1>>

\* C29: on one sample with we # 0, the inductance computed from the
\* voltage-derived flux linkage equals the inductance computed from the voltage
\* equation directly, on both axes, and both are 0 at zero current of the axis.
C29_FormulationsAgree ==
    CalcCalled("inductance_both_ways") =>
        /\ IsFinite(calc_out.ld_flux) /\ IsFinite(calc_out.lq_flux)
        /\ calc_out.ld_flux = calc_out.ld_voltage
        /\ calc_out.lq_flux = calc_out.lq_voltage
        /\ calc_in.i_d = 0 => calc_out.ld_flux = Zero
        /\ calc_in.i_q = 0 => calc_out.lq_flux = Zero
        /\ RMul(calc_out.psi_d, RInt(calc_in.we)) =
              RSub(RInt(calc_in.uq), RMul(calc_in.rs, RInt(calc_in.i_q)))
        /\ RMul(calc_out.psi_q, RInt(calc_in.we)) =
              RSub(RMul(calc_in.rs, RInt(calc_in.i_d)), RInt(calc_in.ud))

\* the sample of the voltage test: uq = 100, iq = 10, we = 100, Rs = 0.1,
\* psi_pm = 0.05, id = 20 gives Ld = 0.047 both ways
C29_Witness ==
    /\ CalcCalled("inductance_both_ways")
    /\ calc_in.uq = 100 /\ calc_in.i_q = 10 /\ calc_in.we = 100
    /\ calc_in.rs = <<1, 10>> /\ calc_in.psi_pm = <<1, 20>> /\ calc_in.i_d = 20
    /\ calc_out.ld_flux = <<47, 1000>>
    /\ calc_out.ld_voltage = <<47, 1000>>

\* C30: flux_linkage_d_axis(id, Ld) is Ld*id with no magnet flux, so for
\* id # 0 inductance_d of it is Ld - psi_pm/id, which is Ld exactly when
\* psi_pm = 0; flux_linkage_q_axis(iq, Lq) is Lq*iq and inductance_q of it is
\* Lq for iq # 0.
C30_NoMagnetFlux ==
    CalcCalled("flux_from_inductance") =>
        /\ calc_out.psi_d = RMul(calc_in.ld, calc_in.i_d)
        /\ calc_out.psi_q = RMul(calc_in.lq, calc_in.i_q)
        /\ calc_in.i_d # Zero =>
              /\ RMul(calc_out.ld_back, calc_in.i_d) =
                    RSub(RMul(calc_in.ld, calc_in.i_d), calc_in.psi_pm)
              /\ (calc_out.ld_back = calc_in.ld) <=> (calc_in.psi_pm = Zero)
        /\ calc_in.i_q # Zero => calc_out.lq_back = calc_in.lq

\* Ld = 0.005, id = 10, psi_pm = 0.05: the inductance read back is 0, not Ld
C30_Witness ==
    /\ CalcCalled("flux_from_inductance")
    /\ calc_in.ld = <<1, 200>> /\ calc_in.i_d = <<10, 1>> /\ calc_in.psi_pm = <<1, 20>>
    /\ calc_out.psi_d = <<1, 20>>
    /\ calc_out.ld_back = Zero
    /\ calc_in.i_q # Zero /\ calc_in.lq # Zero /\ calc_out.lq_back = calc_in.lq

====
